---- MODULE Spec2Model ----
(***************************************************************************)
(* Model of the two simulators of echonexus: the VTC transaction-control   *)
(* evaluator (src/vtc_engine.py, with its reference tables from            *)
(* src/data_module.py; specification Spec) and the Monte Carlo sampler and *)
(* path ranker (src/monte_carlo_engine.py; specification SpecMC), and of   *)
(* two of its managers: the collaborative budgets with their invite codes  *)
(* (src/collaborative.py; specification SpecCollab) and the DAO proposals  *)
(* (src/dao_governance.py; specification SpecDAO).                         *)
(*                                                                         *)
(* Money is counted in cents, so that 1000.01 is the integer 100001 and    *)
(* every comparison of the source is an exact integer comparison.          *)
(* Python floats are read as exact decimals; a quotient is kept as a       *)
(* fraction [num, den].                                                    *)
(***************************************************************************)
EXTENDS Integers, Sequences, FiniteSets, TLC

VARIABLES
    transactions,         \* simulate_vtc argument: list of transaction dicts
    rules_profile,        \* simulate_vtc argument: profile name
    daily_spent,          \* simulate_vtc argument: amount already spent today
    idx,                  \* position of the for loop over transactions
    sim_feed,             \* simulate_vtc local: the results built so far
    running_daily_total,  \* simulate_vtc local: the running daily total
    pc,                   \* "loop", "returned" (simulate_vtc returned), "summarized"
    summary,              \* result of calculate_vtc_summary, NoSummary before it ran
    recommendations,      \* result of get_vtc_recommendations, <<>> before it ran
    np_random,            \* state of the process-wide generator behind np.random
    base_salary,          \* run_monte_carlo argument
    base_expenses,        \* run_monte_carlo argument
    variables,            \* run_monte_carlo argument: lever -> candidate list, or NoVariables
    num_sims,             \* run_monte_carlo argument
    months,               \* run_monte_carlo argument
    sim,                  \* run_monte_carlo local: iterations of the sampling loop done
    outcomes,             \* run_monte_carlo local: the scenarios sampled so far
    mc_pc,                \* "sampling", "done" (run_monte_carlo has ended)
    mc_returned,          \* what each ended invocation returned or raised, oldest first
    budgets,              \* CollaborativeBudgetManager.budgets: budget_id -> budget
    invites,              \* CollaborativeBudgetManager.invites: invite_code -> invite
    collab_returned,      \* what each join_with_invite call returned, oldest first
    member_registry,      \* DAOGovernanceManager.member_registry: address -> member
    communities,          \* DAOGovernanceManager.communities: community_id -> community
    dao_result            \* the last cast_vote or finalize_proposal call: what it
                          \* was made on and what it returned

vtc_vars == <<transactions, rules_profile, daily_spent, idx, sim_feed,
              running_daily_total, pc, summary, recommendations>>

mc_vars == <<np_random, base_salary, base_expenses, variables, num_sims, months,
             sim, outcomes, mc_pc, mc_returned>>

collab_vars == <<budgets, invites, collab_returned>>

dao_vars == <<member_registry, communities, dao_result>>

vars == <<vtc_vars, mc_vars, collab_vars, dao_vars>>

\* Most samples one invocation of run_monte_carlo is asked for.
MaxSims == 4

\* Most invocations of run_monte_carlo in one process.
MaxCalls == 2

\* Longest transaction list the model evaluates.
MaxLen == 3

Cents(euros) == euros * 100

None == "None"

----------------------------------------------------------------------------
(* Reference data: src/data_module.py *)

VTC_RULES ==
    [standard |->
        [max_international |-> Cents(500), max_single_transaction |-> Cents(1000),
         daily_limit |-> Cents(2500), block_high_risk_merchants |-> TRUE,
         allow_atm |-> TRUE, max_atm_withdrawal |-> Cents(500)],
     conservative |->
        [max_international |-> Cents(200), max_single_transaction |-> Cents(500),
         daily_limit |-> Cents(1000), block_high_risk_merchants |-> TRUE,
         allow_atm |-> TRUE, max_atm_withdrawal |-> Cents(200)],
     flexible |->
        [max_international |-> Cents(2000), max_single_transaction |-> Cents(3000),
         daily_limit |-> Cents(5000), block_high_risk_merchants |-> FALSE,
         allow_atm |-> TRUE, max_atm_withdrawal |-> Cents(1000)]]

TRANSACTION_CATEGORIES ==
    [rent          |-> [risk_level |-> "low",    icon |-> "house"],
     groceries     |-> [risk_level |-> "low",    icon |-> "cart"],
     utilities     |-> [risk_level |-> "low",    icon |-> "bulb"],
     transport     |-> [risk_level |-> "low",    icon |-> "bus"],
     dining        |-> [risk_level |-> "medium", icon |-> "plate"],
     entertainment |-> [risk_level |-> "medium", icon |-> "clapper"],
     shopping      |-> [risk_level |-> "medium", icon |-> "bags"],
     electronics   |-> [risk_level |-> "high",   icon |-> "laptop"],
     travel        |-> [risk_level |-> "high",   icon |-> "plane"],
     atm           |-> [risk_level |-> "low",    icon |-> "atm"],
     healthcare    |-> [risk_level |-> "low",    icon |-> "hospital"],
     education     |-> [risk_level |-> "low",    icon |-> "books"]]

\* Variant: an unknown name falls back to the tightest profile.
get_vtc_rules_fallback_conservative(profile) ==
    IF profile \in DOMAIN VTC_RULES THEN VTC_RULES[profile] ELSE VTC_RULES["conservative"]

\* VTC_RULES.get(profile, VTC_RULES["standard"])
get_vtc_rules(profile) ==
    IF profile \in DOMAIN VTC_RULES THEN VTC_RULES[profile] ELSE VTC_RULES["standard"]

----------------------------------------------------------------------------
(* simulate_vtc: src/vtc_engine.py *)

\* dict.get(key, default) on a transaction dict
TxGet(tx, key, default) == IF key \in DOMAIN tx THEN tx[key] ELSE default

\* Variant: an unknown category is given the high risk tier.
CatInfoDefaultHigh(category) ==
    IF category \in DOMAIN TRANSACTION_CATEGORIES
    THEN TRANSACTION_CATEGORIES[category]
    ELSE [risk_level |-> "high", icon |-> "card"]

\* TRANSACTION_CATEGORIES.get(category, {"risk_level": "medium", "icon": card})
CatInfo(category) ==
    IF category \in DOMAIN TRANSACTION_CATEGORIES
    THEN TRANSACTION_CATEGORIES[category]
    ELSE [risk_level |-> "medium", icon |-> "card"]

Approve == [status |-> "Approved", reason |-> "Transaction approved",
            vtc_action |-> None, savings_impact |-> 0]

\* Variant: the single-transaction check is made before the international one.
VerdictSingleFirst(amount, location, category, cat_info, rules, running) ==
    IF amount > rules.max_single_transaction
    THEN [status |-> "Declined", reason |-> "Exceeds single transaction limit",
          vtc_action |-> "VTC blocked this large purchase",
          savings_impact |-> amount]
    ELSE IF location = "international" /\ amount > rules.max_international
    THEN [status |-> "Declined", reason |-> "Exceeds international limit",
          vtc_action |-> "VTC blocked this international transaction",
          savings_impact |-> amount]
    ELSE IF running + amount > rules.daily_limit
    THEN [status |-> "Declined", reason |-> "Would exceed daily limit",
          vtc_action |-> "Daily spending limit reached",
          savings_impact |-> amount]
    ELSE IF category = "atm"
    THEN IF ~rules.allow_atm
         THEN [status |-> "Declined", reason |-> "ATM withdrawals blocked by VTC settings",
               vtc_action |-> "ATM access disabled in your VTC profile",
               savings_impact |-> amount]
         ELSE IF amount > rules.max_atm_withdrawal
         THEN [status |-> "Declined", reason |-> "Exceeds ATM withdrawal limit",
               vtc_action |-> "ATM withdrawal limit exceeded",
               savings_impact |-> amount]
         ELSE Approve
    ELSE IF cat_info.risk_level = "high" /\ rules.block_high_risk_merchants
    THEN IF amount * 10 > rules.max_international * 8
         THEN [status |-> "Flagged",
               reason |-> "High-value transaction in high-risk category",
               vtc_action |-> "Transaction flagged for review",
               savings_impact |-> 0]
         ELSE Approve
    ELSE Approve

\* Variant: the single-transaction limit is inclusive (>= instead of >).
VerdictSingleInclusive(amount, location, category, cat_info, rules, running) ==
    IF location = "international" /\ amount > rules.max_international
    THEN [status |-> "Declined", reason |-> "Exceeds international limit",
          vtc_action |-> "VTC blocked this international transaction",
          savings_impact |-> amount]
    ELSE IF amount >= rules.max_single_transaction
    THEN [status |-> "Declined", reason |-> "Exceeds single transaction limit",
          vtc_action |-> "VTC blocked this large purchase",
          savings_impact |-> amount]
    ELSE IF running + amount > rules.daily_limit
    THEN [status |-> "Declined", reason |-> "Would exceed daily limit",
          vtc_action |-> "Daily spending limit reached",
          savings_impact |-> amount]
    ELSE IF category = "atm"
    THEN IF ~rules.allow_atm
         THEN [status |-> "Declined", reason |-> "ATM withdrawals blocked by VTC settings",
               vtc_action |-> "ATM access disabled in your VTC profile",
               savings_impact |-> amount]
         ELSE IF amount > rules.max_atm_withdrawal
         THEN [status |-> "Declined", reason |-> "Exceeds ATM withdrawal limit",
               vtc_action |-> "ATM withdrawal limit exceeded",
               savings_impact |-> amount]
         ELSE Approve
    ELSE IF cat_info.risk_level = "high" /\ rules.block_high_risk_merchants
    THEN IF amount * 10 > rules.max_international * 8
         THEN [status |-> "Flagged",
               reason |-> "High-value transaction in high-risk category",
               vtc_action |-> "Transaction flagged for review",
               savings_impact |-> 0]
         ELSE Approve
    ELSE Approve

\* Variant: a flagged transaction records its amount as protected.
VerdictFlaggedProtects(amount, location, category, cat_info, rules, running) ==
    IF location = "international" /\ amount > rules.max_international
    THEN [status |-> "Declined", reason |-> "Exceeds international limit",
          vtc_action |-> "VTC blocked this international transaction",
          savings_impact |-> amount]
    ELSE IF amount > rules.max_single_transaction
    THEN [status |-> "Declined", reason |-> "Exceeds single transaction limit",
          vtc_action |-> "VTC blocked this large purchase",
          savings_impact |-> amount]
    ELSE IF running + amount > rules.daily_limit
    THEN [status |-> "Declined", reason |-> "Would exceed daily limit",
          vtc_action |-> "Daily spending limit reached",
          savings_impact |-> amount]
    ELSE IF category = "atm"
    THEN IF ~rules.allow_atm
         THEN [status |-> "Declined", reason |-> "ATM withdrawals blocked by VTC settings",
               vtc_action |-> "ATM access disabled in your VTC profile",
               savings_impact |-> amount]
         ELSE IF amount > rules.max_atm_withdrawal
         THEN [status |-> "Declined", reason |-> "Exceeds ATM withdrawal limit",
               vtc_action |-> "ATM withdrawal limit exceeded",
               savings_impact |-> amount]
         ELSE Approve
    ELSE IF cat_info.risk_level = "high" /\ rules.block_high_risk_merchants
    THEN IF amount * 10 > rules.max_international * 8
         THEN [status |-> "Flagged",
               reason |-> "High-value transaction in high-risk category",
               vtc_action |-> "Transaction flagged for review",
               savings_impact |-> amount]
         ELSE Approve
    ELSE Approve

\* Variant: the ATM-limit decline forgets to record the protected amount.
VerdictAtmNoSavings(amount, location, category, cat_info, rules, running) ==
    IF location = "international" /\ amount > rules.max_international
    THEN [status |-> "Declined", reason |-> "Exceeds international limit",
          vtc_action |-> "VTC blocked this international transaction",
          savings_impact |-> amount]
    ELSE IF amount > rules.max_single_transaction
    THEN [status |-> "Declined", reason |-> "Exceeds single transaction limit",
          vtc_action |-> "VTC blocked this large purchase",
          savings_impact |-> amount]
    ELSE IF running + amount > rules.daily_limit
    THEN [status |-> "Declined", reason |-> "Would exceed daily limit",
          vtc_action |-> "Daily spending limit reached",
          savings_impact |-> amount]
    ELSE IF category = "atm"
    THEN IF ~rules.allow_atm
         THEN [status |-> "Declined", reason |-> "ATM withdrawals blocked by VTC settings",
               vtc_action |-> "ATM access disabled in your VTC profile",
               savings_impact |-> amount]
         ELSE IF amount > rules.max_atm_withdrawal
         THEN [status |-> "Declined", reason |-> "Exceeds ATM withdrawal limit",
               vtc_action |-> "ATM withdrawal limit exceeded",
               savings_impact |-> 0]
         ELSE Approve
    ELSE IF cat_info.risk_level = "high" /\ rules.block_high_risk_merchants
    THEN IF amount * 10 > rules.max_international * 8
         THEN [status |-> "Flagged",
               reason |-> "High-value transaction in high-risk category",
               vtc_action |-> "Transaction flagged for review",
               savings_impact |-> 0]
         ELSE Approve
    ELSE Approve

\* Variant: the ATM withdrawal limit is inclusive (>= instead of >).
VerdictAtmInclusive(amount, location, category, cat_info, rules, running) ==
    IF location = "international" /\ amount > rules.max_international
    THEN [status |-> "Declined", reason |-> "Exceeds international limit",
          vtc_action |-> "VTC blocked this international transaction",
          savings_impact |-> amount]
    ELSE IF amount > rules.max_single_transaction
    THEN [status |-> "Declined", reason |-> "Exceeds single transaction limit",
          vtc_action |-> "VTC blocked this large purchase",
          savings_impact |-> amount]
    ELSE IF running + amount > rules.daily_limit
    THEN [status |-> "Declined", reason |-> "Would exceed daily limit",
          vtc_action |-> "Daily spending limit reached",
          savings_impact |-> amount]
    ELSE IF category = "atm"
    THEN IF ~rules.allow_atm
         THEN [status |-> "Declined", reason |-> "ATM withdrawals blocked by VTC settings",
               vtc_action |-> "ATM access disabled in your VTC profile",
               savings_impact |-> amount]
         ELSE IF amount >= rules.max_atm_withdrawal
         THEN [status |-> "Declined", reason |-> "Exceeds ATM withdrawal limit",
               vtc_action |-> "ATM withdrawal limit exceeded",
               savings_impact |-> amount]
         ELSE Approve
    ELSE IF cat_info.risk_level = "high" /\ rules.block_high_risk_merchants
    THEN IF amount * 10 > rules.max_international * 8
         THEN [status |-> "Flagged",
               reason |-> "High-value transaction in high-risk category",
               vtc_action |-> "Transaction flagged for review",
               savings_impact |-> 0]
         ELSE Approve
    ELSE Approve

\* Variant: the daily limit is compared with the amount alone.
VerdictDailyLimitOnAmount(amount, location, category, cat_info, rules, running) ==
    IF location = "international" /\ amount > rules.max_international
    THEN [status |-> "Declined", reason |-> "Exceeds international limit",
          vtc_action |-> "VTC blocked this international transaction",
          savings_impact |-> amount]
    ELSE IF amount > rules.max_single_transaction
    THEN [status |-> "Declined", reason |-> "Exceeds single transaction limit",
          vtc_action |-> "VTC blocked this large purchase",
          savings_impact |-> amount]
    ELSE IF amount > rules.daily_limit
    THEN [status |-> "Declined", reason |-> "Would exceed daily limit",
          vtc_action |-> "Daily spending limit reached",
          savings_impact |-> amount]
    ELSE IF category = "atm"
    THEN IF ~rules.allow_atm
         THEN [status |-> "Declined", reason |-> "ATM withdrawals blocked by VTC settings",
               vtc_action |-> "ATM access disabled in your VTC profile",
               savings_impact |-> amount]
         ELSE IF amount > rules.max_atm_withdrawal
         THEN [status |-> "Declined", reason |-> "Exceeds ATM withdrawal limit",
               vtc_action |-> "ATM withdrawal limit exceeded",
               savings_impact |-> amount]
         ELSE Approve
    ELSE IF cat_info.risk_level = "high" /\ rules.block_high_risk_merchants
    THEN IF amount * 10 > rules.max_international * 8
         THEN [status |-> "Flagged",
               reason |-> "High-value transaction in high-risk category",
               vtc_action |-> "Transaction flagged for review",
               savings_impact |-> 0]
         ELSE Approve
    ELSE Approve

\* The if/elif chain that settles one transaction's verdict.
Verdict(amount, location, category, cat_info, rules, running) ==
    IF location = "international" /\ amount > rules.max_international
    THEN [status |-> "Declined", reason |-> "Exceeds international limit",
          vtc_action |-> "VTC blocked this international transaction",
          savings_impact |-> amount]
    ELSE IF amount > rules.max_single_transaction
    THEN [status |-> "Declined", reason |-> "Exceeds single transaction limit",
          vtc_action |-> "VTC blocked this large purchase",
          savings_impact |-> amount]
    ELSE IF running + amount > rules.daily_limit
    THEN [status |-> "Declined", reason |-> "Would exceed daily limit",
          vtc_action |-> "Daily spending limit reached",
          savings_impact |-> amount]
    ELSE IF category = "atm"
    THEN IF ~rules.allow_atm
         THEN [status |-> "Declined", reason |-> "ATM withdrawals blocked by VTC settings",
               vtc_action |-> "ATM access disabled in your VTC profile",
               savings_impact |-> amount]
         ELSE IF amount > rules.max_atm_withdrawal
         THEN [status |-> "Declined", reason |-> "Exceeds ATM withdrawal limit",
               vtc_action |-> "ATM withdrawal limit exceeded",
               savings_impact |-> amount]
         ELSE Approve
    ELSE IF cat_info.risk_level = "high" /\ rules.block_high_risk_merchants
    THEN \* amount > rules["max_international"] * 0.8
         IF amount * 10 > rules.max_international * 8
         THEN [status |-> "Flagged",
               reason |-> "High-value transaction in high-risk category",
               vtc_action |-> "Transaction flagged for review",
               savings_impact |-> 0]
         ELSE Approve
    ELSE Approve

\* Variant: every transaction that is not declined advances the total.
NextRunningTotalUnlessDeclined(status, running, amount) ==
    IF status # "Declined" THEN running + amount ELSE running

\* Variant: every transaction advances the total, whatever its verdict.
NextRunningTotalAlways(status, running, amount) == running + amount

\* if status == "Approved": running_daily_total += amount
NextRunningTotal(status, running, amount) ==
    IF status = "Approved" THEN running + amount ELSE running

\* One iteration of the loop: the dict appended to sim_feed.
ProcessTx(tx, rules, running) ==
    LET amount   == TxGet(tx, "amount", 0)
        location == TxGet(tx, "location", "domestic")
        category == TxGet(tx, "category", "shopping")
        desc     == TxGet(tx, "desc", "Unknown Transaction")
        cat_info == CatInfo(category)
        v        == Verdict(amount, location, category, cat_info, rules, running)
    IN  [tx |-> desc, amount |-> amount, category |-> category,
         location |-> location, status |-> v.status, reason |-> v.reason,
         vtc_action |-> v.vtc_action, savings_impact |-> v.savings_impact,
         icon |-> cat_info.icon, risk_level |-> cat_info.risk_level,
         running_daily_total |-> NextRunningTotal(v.status, running, amount)]

\* Variant: the result is inserted at the front of the feed.
AppendResultAtFront(feed, r) == <<r>> \o feed

\* sim_feed.append({...})
AppendResult(feed, r) == Append(feed, r)

\* Variant: every transaction is evaluated against the starting total.
RECURSIVE SimulateFromStartingTotal(_, _, _, _)
SimulateFromStartingTotal(txs, rules, running, feed) ==
    IF txs = <<>> THEN feed
    ELSE LET r == ProcessTx(Head(txs), rules, running)
         IN  SimulateFromStartingTotal(Tail(txs), rules, running, AppendResult(feed, r))

RECURSIVE SimulateFrom(_, _, _, _)
SimulateFrom(txs, rules, running, feed) ==
    IF txs = <<>> THEN feed
    ELSE LET r == ProcessTx(Head(txs), rules, running)
         IN  SimulateFrom(Tail(txs), rules, r.running_daily_total, AppendResult(feed, r))

\* simulate_vtc as a function of its three arguments
simulate_vtc(txs, profile, spent) ==
    SimulateFrom(txs, get_vtc_rules(profile), spent, <<>>)

----------------------------------------------------------------------------
(* calculate_vtc_summary: src/vtc_engine.py *)

\* sum(1 for tx in sim_feed if tx["status"] == status)
RECURSIVE CountStatus(_, _)
CountStatus(feed, status) ==
    IF feed = <<>> THEN 0
    ELSE (IF Head(feed).status = status THEN 1 ELSE 0) + CountStatus(Tail(feed), status)

\* sum(tx["amount"] for tx in sim_feed if tx["status"] == status)
RECURSIVE SumAmountOf(_, _)
SumAmountOf(feed, status) ==
    IF feed = <<>> THEN 0
    ELSE (IF Head(feed).status = status THEN Head(feed).amount ELSE 0)
         + SumAmountOf(Tail(feed), status)

\* sum(tx["savings_impact"] for tx in sim_feed)
RECURSIVE SumSavingsImpact(_)
SumSavingsImpact(feed) ==
    IF feed = <<>> THEN 0
    ELSE Head(feed).savings_impact + SumSavingsImpact(Tail(feed))

\* Variant: the division is not guarded; den = 0 stands for the ZeroDivisionError.
ApprovalRateUnguarded(approved, total_transactions) ==
    [num |-> approved * 100, den |-> total_transactions]

\* (approved / total_transactions * 100) if total_transactions > 0 else 0,
\* kept as the fraction num/den
ApprovalRate(approved, total_transactions) ==
    IF total_transactions > 0
    THEN [num |-> approved * 100, den |-> total_transactions]
    ELSE [num |-> 0, den |-> 1]

\* The body of the loop that fills category_breakdown, for one result.
AddToBreakdown(breakdown, tx) ==
    LET cat == tx.category
        b0  == IF cat \in DOMAIN breakdown THEN breakdown
               ELSE (cat :> [approved |-> 0, declined |-> 0, total |-> 0]) @@ breakdown
        e   == b0[cat]
    IN  [b0 EXCEPT ![cat] =
            IF tx.status = "Approved"
            THEN [e EXCEPT !.total = @ + tx.amount, !.approved = @ + tx.amount]
            ELSE [e EXCEPT !.total = @ + tx.amount, !.declined = @ + tx.amount]]

RECURSIVE CategoryBreakdown(_, _)
CategoryBreakdown(feed, breakdown) ==
    IF feed = <<>> THEN breakdown
    ELSE CategoryBreakdown(Tail(feed), AddToBreakdown(breakdown, Head(feed)))

EmptyBreakdown == [c \in {} |-> 0]

calculate_vtc_summary(feed) ==
    LET total_transactions == Len(feed)
        approved == CountStatus(feed, "Approved")
        declined == CountStatus(feed, "Declined")
        flagged  == CountStatus(feed, "Flagged")
    IN  [total_transactions |-> total_transactions,
         approved_count     |-> approved,
         declined_count     |-> declined,
         flagged_count      |-> flagged,
         approval_rate      |-> ApprovalRate(approved, total_transactions),
         total_approved     |-> SumAmountOf(feed, "Approved"),
         total_declined     |-> SumAmountOf(feed, "Declined"),
         potential_savings  |-> SumSavingsImpact(feed),
         category_breakdown |-> CategoryBreakdown(feed, EmptyBreakdown)]

----------------------------------------------------------------------------
(* get_vtc_recommendations: src/vtc_engine.py *)

\* [tx for tx in sim_feed if tx["status"] == "Declined" and tx["amount"] > 500]
DeclinedHighValue(feed) ==
    SelectSeq(feed, LAMBDA tx : tx.status = "Declined" /\ tx.amount > Cents(500))

\* [tx for tx in sim_feed if tx["status"] == "Declined"
\*                          and tx["location"] == "international"]
InternationalDeclines(feed) ==
    SelectSeq(feed, LAMBDA tx : tx.status = "Declined" /\ tx.location = "international")

SplitAdvice == "Consider splitting large purchases into smaller transactions"
TravelAdvice == "Set up travel notifications with your bank before moving abroad"
SavedAdvice == "VTC saved you from potential overspending"
ConservativeAdvice == "Your conservative VTC profile is ideal for the first 3 months abroad"
FlexibleAdvice == "Flexible VTC profile detected"
DefaultAdvice == "Your spending pattern is well-optimized for your VTC profile"

\* Variant: the checks form one if/elif chain, so at most one of them fires.
get_vtc_recommendations_exclusive(feed, profile) ==
    IF DeclinedHighValue(feed) # <<>> THEN <<SplitAdvice>>
    ELSE IF Len(InternationalDeclines(feed)) > 2 THEN <<TravelAdvice>>
    ELSE IF SumAmountOf(feed, "Declined") > Cents(1000) THEN <<SavedAdvice>>
    ELSE IF profile = "conservative" THEN <<ConservativeAdvice>>
    ELSE IF profile = "flexible" THEN <<FlexibleAdvice>>
    ELSE <<DefaultAdvice>>

get_vtc_recommendations(feed, profile) ==
    LET r1 == IF DeclinedHighValue(feed) # <<>> THEN <<SplitAdvice>> ELSE <<>>
        r2 == IF Len(InternationalDeclines(feed)) > 2
              THEN Append(r1, TravelAdvice) ELSE r1
        total_declined == SumAmountOf(feed, "Declined")
        r3 == IF total_declined > Cents(1000) THEN Append(r2, SavedAdvice) ELSE r2
        r4 == IF profile = "conservative" THEN Append(r3, ConservativeAdvice)
              ELSE IF profile = "flexible" THEN Append(r3, FlexibleAdvice)
              ELSE r3
    IN  IF r4 = <<>> THEN <<DefaultAdvice>> ELSE r4

----------------------------------------------------------------------------
(* Exact arithmetic for the float computations of src/monte_carlo_engine.py.  *)
(* A number is the fraction [num, den], den > 0, in lowest terms; den = 0     *)
(* stands for the ZeroDivisionError of a division by zero.  Lever fractions   *)
(* (0.15, 0.25, ...) are counted in percent, money in cents.                  *)

Abs(x) == IF x < 0 THEN 0 - x ELSE x

RECURSIVE GCD(_, _)
GCD(a, b) == IF b = 0 THEN a ELSE GCD(b, a % b)

Frac(n, d) ==
    IF d = 0 THEN [num |-> n, den |-> 0]
    ELSE LET g  == GCD(Abs(n), Abs(d))
             sg == IF d < 0 THEN 0 - 1 ELSE 1
         IN  [num |-> sg * (n \div g), den |-> sg * (d \div g)]

R(n) == [num |-> n, den |-> 1]
RAdd(a, b) == Frac(a.num * b.den + b.num * a.den, a.den * b.den)
RSub(a, b) == Frac(a.num * b.den - b.num * a.den, a.den * b.den)
RMul(a, b) == Frac(a.num * b.num, a.den * b.den)
RLe(a, b) == a.num * b.den <= b.num * a.den
RLt(a, b) == a.num * b.den < b.num * a.den
RMin(a, b) == IF RLe(a, b) THEN a ELSE b
RMax(a, b) == IF RLe(a, b) THEN b ELSE a

----------------------------------------------------------------------------
(* Scoring: src/monte_carlo_engine.py *)

\* Variant: the division is made without looking at expenses first.
RatioUnguarded(salary, expenses) == Frac(salary, expenses)

\* ratio = salary / expenses if expenses > 0 else 2
Ratio(salary, expenses) == IF expenses > 0 THEN Frac(salary, expenses) ELSE R(2)

\* savings_rate = monthly_savings / salary if salary > 0 else 0
SavingsRate(monthly_savings, salary) ==
    IF salary > 0 THEN Frac(monthly_savings, salary) ELSE R(0)

calculate_approval_probability(salary, expenses, savings) ==
    LET ratio == Ratio(salary, expenses)
        p0 == RMin(RAdd(Frac(1, 2), RMul(RSub(ratio, R(1)), Frac(1, 4))), Frac(3, 4))
        p1 == IF savings >= Cents(15000) THEN RAdd(p0, Frac(15, 100))
              ELSE IF savings >= Cents(11208) THEN RAdd(p0, Frac(10, 100))
              ELSE IF savings >= Cents(5000) THEN RAdd(p0, Frac(5, 100))
              ELSE p0
        p2 == IF RLe(Frac(3, 2), ratio) THEN RAdd(p1, Frac(5, 100)) ELSE p1
    IN  RMin(Frac(98, 100), RMax(Frac(1, 10), p2))

\* Variant: the score is returned without the lower clamp max(0, score).
calculate_stability_score_no_floor(salary, expenses, monthly_savings) ==
    LET ratio == Ratio(salary, expenses)
        s1 == RAdd(R(50), RMin(R(20), RMul(RSub(ratio, R(1)), R(20))))
        savings_rate == SavingsRate(monthly_savings, salary)
        s2 == RAdd(s1, RMin(R(20), RMul(savings_rate, R(100))))
        s3 == IF monthly_savings >= Cents(500) THEN RAdd(s2, R(10)) ELSE s2
    IN  RMin(R(100), s3)

calculate_stability_score(salary, expenses, monthly_savings) ==
    LET ratio == Ratio(salary, expenses)
        s1 == RAdd(R(50), RMin(R(20), RMul(RSub(ratio, R(1)), R(20))))
        savings_rate == SavingsRate(monthly_savings, salary)
        s2 == RAdd(s1, RMin(R(20), RMul(savings_rate, R(100))))
        s3 == IF monthly_savings >= Cents(500) THEN RAdd(s2, R(10)) ELSE s2
    IN  RMin(R(100), RMax(R(0), s3))

----------------------------------------------------------------------------
(* run_monte_carlo: src/monte_carlo_engine.py *)

\* The variables mapping used when the caller passes None.
DefaultVariables ==
    [upskill_boost |-> <<0, 15, 25>>,
     expense_reduction |-> <<0, 10, 20>>,
     side_income |-> <<0, Cents(200), Cents(500)>>]

\* The argument variables=None (a record, so that it compares with mappings).
NoVariables == [is_none |-> TRUE]

\* if variables is None: variables = {...}
EffectiveVariables(vars_arg) ==
    IF vars_arg = NoVariables THEN DefaultVariables ELSE vars_arg

\* variables.get(lever, default) with the defaults written at the three calls
LeverDefault(lever) ==
    CASE lever = "upskill_boost" -> <<0, 20>>
      [] lever = "expense_reduction" -> <<0, 10>>
      [] lever = "side_income" -> <<0, Cents(200)>>

Candidates(vars_arg, lever) ==
    LET v == EffectiveVariables(vars_arg)
    IN  IF lever \in DOMAIN v THEN v[lever] ELSE LeverDefault(lever)

\* The process-wide generator behind np.random: a draw reads the state and
\* advances it.  The generator is a small linear congruential one.
RngMod == 64

RngNext(state) == (state * 5 + 3) % RngMod

\* np.random.choice(list) on generator state `state`
NpChoice(state, list) == list[((state \div 4) % Len(list)) + 1]

\* Variant: the 12-month savings are computed without the months argument.
TotalSavingsTwelve(monthly_savings, months_arg) == monthly_savings * 12

\* total_savings = monthly_savings * months
TotalSavings(monthly_savings, months_arg) == monthly_savings * months_arg

\* One scenario from its three lever values.
Outcome(salary0, expenses0, months_arg, upskill, expense_cut, side) ==
    LET effective_salary   == (salary0 * (100 + upskill)) \div 100 + side
        effective_expenses == (expenses0 * (100 - expense_cut)) \div 100
        monthly_savings    == effective_salary - effective_expenses
        total_savings      == TotalSavings(monthly_savings, months_arg)
    IN  [salary |-> effective_salary,
         expenses |-> effective_expenses,
         monthly_savings |-> monthly_savings,
         total_savings_12m |-> total_savings,
         approval_prob |-> calculate_approval_probability(
                               effective_salary, effective_expenses, total_savings),
         visa_fund_met |-> total_savings >= Cents(11208),
         stability_score |-> calculate_stability_score(
                               effective_salary, effective_expenses, monthly_savings),
         upskill_applied |-> upskill > 0,
         upskill_boost |-> upskill,
         expense_cut |-> expense_cut,
         side_income |-> side]

\* One iteration of the sampling loop from generator state `state`:
\* the outcome appended and the state the three draws leave behind.
SampleOnce(state, salary0, expenses0, vars_arg, months_arg) ==
    LET s1 == RngNext(state)
        s2 == RngNext(s1)
        upskill     == NpChoice(state, Candidates(vars_arg, "upskill_boost"))
        expense_cut == NpChoice(s1, Candidates(vars_arg, "expense_reduction"))
        side        == NpChoice(s2, Candidates(vars_arg, "side_income"))
    IN  [outcome |-> Outcome(salary0, expenses0, months_arg, upskill, expense_cut, side),
         state |-> RngNext(s2)]

\* sorted(outcomes, key=approval_prob, reverse=True): stable, so an outcome is
\* placed after every outcome of at least its approval_prob sorted before it.
\* Variant: an outcome is placed before the outcomes of equal approval_prob.
RECURSIVE InsertByProbBeforeEqual(_, _)
InsertByProbBeforeEqual(sorted, o) ==
    IF sorted = <<>> THEN <<o>>
    ELSE IF RLe(Head(sorted).approval_prob, o.approval_prob)
         THEN <<o>> \o sorted
         ELSE <<Head(sorted)>> \o InsertByProbBeforeEqual(Tail(sorted), o)

RECURSIVE InsertByProb(_, _)
InsertByProb(sorted, o) ==
    IF sorted = <<>> THEN <<o>>
    ELSE IF RLt(Head(sorted).approval_prob, o.approval_prob)
         THEN <<o>> \o sorted
         ELSE <<Head(sorted)>> \o InsertByProb(Tail(sorted), o)

RECURSIVE SortByProbFrom(_, _)
SortByProbFrom(rest, sorted) ==
    IF rest = <<>> THEN sorted
    ELSE SortByProbFrom(Tail(rest), InsertByProb(sorted, Head(rest)))

SortedOutcomes(all) == SortByProbFrom(all, <<>>)

\* Variant: the expense-reduction rule is asked before the boost rule.
generate_path_name_frugal_first(outcome) ==
    IF outcome.expense_cut >= 15 THEN "Frugal Pioneer Path"
    ELSE IF outcome.upskill_boost >= 20 THEN "Career Accelerator Path"
    ELSE IF outcome.side_income >= Cents(400) THEN "Hustle Builder Path"
    ELSE IF outcome.upskill_boost > 0 /\ outcome.expense_cut > 0
         THEN "Balanced Growth Path"
    ELSE "Steady Progress Path"

generate_path_name(outcome) ==
    IF outcome.upskill_boost >= 20 THEN "Career Accelerator Path"
    ELSE IF outcome.expense_cut >= 15 THEN "Frugal Pioneer Path"
    ELSE IF outcome.side_income >= Cents(400) THEN "Hustle Builder Path"
    ELSE IF outcome.upskill_boost > 0 /\ outcome.expense_cut > 0
         THEN "Balanced Growth Path"
    ELSE "Steady Progress Path"

\* Variant: the boost is listed from 0.2 on, the threshold of the path name.
generate_path_description_boost_as_named(outcome) ==
    LET p1 == IF outcome.upskill_boost >= 20
              THEN <<[text |-> "% salary through upskilling",
                      value |-> outcome.upskill_boost]>>
              ELSE <<>>
        p2 == IF outcome.expense_cut >= 10
              THEN Append(p1, [text |-> "% expense reduction",
                               value |-> outcome.expense_cut])
              ELSE p1
        p3 == IF outcome.side_income > 0
              THEN Append(p2, [text |-> "side income", value |-> outcome.side_income])
              ELSE p2
    IN  IF p3 = <<>> THEN <<[text |-> "Current trajectory maintained", value |-> 0]>>
        ELSE p3

\* The parts joined by " + ": each part is its text with the value it prints.
generate_path_description(outcome) ==
    LET p1 == IF outcome.upskill_boost >= 15
              THEN <<[text |-> "% salary through upskilling",
                      value |-> outcome.upskill_boost]>>
              ELSE <<>>
        p2 == IF outcome.expense_cut >= 10
              THEN Append(p1, [text |-> "% expense reduction",
                               value |-> outcome.expense_cut])
              ELSE p1
        p3 == IF outcome.side_income > 0
              THEN Append(p2, [text |-> "side income", value |-> outcome.side_income])
              ELSE p2
    IN  IF p3 = <<>> THEN <<[text |-> "Current trajectory maintained", value |-> 0]>>
        ELSE p3

\* Variant: an outcome is compared with the last selected path only.
NearLastSelected(distinct_paths, outcome) ==
    /\ distinct_paths # <<>>
    /\ Abs(outcome.salary - distinct_paths[Len(distinct_paths)].salary) < Cents(200)

\* Variant: two paths are near-duplicates only if their lever mix agrees too.
NearSelectedSameMix(distinct_paths, outcome) ==
    \E k \in 1..Len(distinct_paths) :
        /\ Abs(outcome.salary - distinct_paths[k].salary) < Cents(200)
        /\ outcome.expense_cut = distinct_paths[k].expense_cut
        /\ outcome.side_income = distinct_paths[k].side_income

\* salary_diff < 200 for some path already selected
NearSelected(distinct_paths, outcome) ==
    \E k \in 1..Len(distinct_paths) :
        Abs(outcome.salary - distinct_paths[k].salary) < Cents(200)

\* path = outcome.copy() with path_name and path_description
Path(outcome) ==
    [f \in DOMAIN outcome \cup {"path_name", "path_description"} |->
        IF f = "path_name" THEN generate_path_name(outcome)
        ELSE IF f = "path_description" THEN generate_path_description(outcome)
        ELSE outcome[f]]

RECURSIVE DistinctFrom(_, _, _)
DistinctFrom(rest, distinct_paths, n) ==
    IF rest = <<>> THEN distinct_paths
    ELSE IF NearSelected(distinct_paths, Head(rest))
         THEN DistinctFrom(Tail(rest), distinct_paths, n)
         ELSE LET grown == Append(distinct_paths, Path(Head(rest)))
              IN  IF Len(grown) >= n THEN grown
                  ELSE DistinctFrom(Tail(rest), grown, n)

get_distinct_top_paths(sorted, n) == DistinctFrom(sorted, <<>>, n)

ValueError == [exception |-> "ValueError"]

RECURSIVE SumOf(_)
SumOf(list) == IF list = <<>> THEN 0 ELSE Head(list) + SumOf(Tail(list))

RECURSIVE RSumOf(_)
RSumOf(list) == IF list = <<>> THEN R(0) ELSE RAdd(Head(list), RSumOf(Tail(list)))

Field(list, f) == [k \in 1..Len(list) |-> list[k][f]]

\* np.max / np.min of a non-empty list of money amounts
NpMax(list) == CHOOSE x \in {list[k] : k \in 1..Len(list)} :
                   \A k \in 1..Len(list) : list[k] <= x
NpMin(list) == CHOOSE x \in {list[k] : k \in 1..Len(list)} :
                   \A k \in 1..Len(list) : x <= list[k]

\* np.max of a non-empty list of fractions
NpMaxR(list) == CHOOSE x \in {list[k] : k \in 1..Len(list)} :
                    \A k \in 1..Len(list) : RLe(list[k], x)

\* sum(1 for o in outcomes if o["visa_fund_met"])
VisaMetCount(all) == Cardinality({k \in 1..Len(all) : all[k].visa_fund_met})

\* The statistics dict over a list of outcomes.  np.max of an empty list
\* raises ValueError (np.mean of it only warns), so the dict is never built
\* for an empty list.
StatsOf(some) ==
    LET salaries == Field(some, "salary")
        savings  == Field(some, "total_savings_12m")
        probs    == Field(some, "approval_prob")
    IN  IF some = <<>> THEN ValueError
        ELSE [avg_salary |-> Frac(SumOf(salaries), Len(some)),
              max_salary |-> NpMax(salaries),
              min_salary |-> NpMin(salaries),
              avg_savings |-> Frac(SumOf(savings), Len(some)),
              max_savings |-> NpMax(savings),
              min_savings |-> NpMin(savings),
              avg_approval_prob |-> RMul(RSumOf(probs), Frac(1, Len(some))),
              max_approval_prob |-> NpMaxR(probs),
              visa_fund_success_rate |-> Frac(VisaMetCount(some) * 100, Len(some)),
              total_simulations |-> Len(some)]

\* Variant: the statistics are taken over the selected top paths.
calculate_simulation_stats_of_top_paths(all) ==
    StatsOf(get_distinct_top_paths(SortedOutcomes(all), 3))

calculate_simulation_stats(all) == StatsOf(all)

\* What run_monte_carlo does once the sampling loop has ended: the returned
\* dict, or the exception that leaves the function.
Bundle(salary0, expenses0, months_arg, all) ==
    LET top_paths == get_distinct_top_paths(SortedOutcomes(all), 3)
        stats     == calculate_simulation_stats(all)
    IN  IF stats = ValueError THEN ValueError
        ELSE [top_paths |-> top_paths,
              all_outcomes |-> all,
              statistics |-> stats,
              base_scenario |->
                 [salary |-> salary0,
                  expenses |-> expenses0,
                  monthly_savings |-> salary0 - expenses0,
                  approval_prob |-> calculate_approval_probability(
                      salary0, expenses0, (salary0 - expenses0) * months_arg)]]

----------------------------------------------------------------------------
(* Inputs *)

NoFields == [k \in {} |-> 0]

TxSet ==
    { [desc |-> "Laptop Purchase", amount |-> Cents(1200),
       category |-> "electronics", location |-> "international"],
      [desc |-> "Sofa", amount |-> Cents(1000),
       category |-> "shopping", location |-> "domestic"],
      [desc |-> "Sofa", amount |-> Cents(1000) + 1,
       category |-> "shopping", location |-> "domestic"],
      [desc |-> "Weekend Trip", amount |-> Cents(450),
       category |-> "travel", location |-> "domestic"],
      [desc |-> "ATM Withdrawal", amount |-> Cents(600),
       category |-> "atm", location |-> "domestic"],
      [desc |-> "ATM Withdrawal", amount |-> Cents(200),
       category |-> "atm", location |-> "international"],
      [desc |-> "Grocery Store", amount |-> Cents(85),
       category |-> "groceries", location |-> "international"],
      [desc |-> "Refund", amount |-> 0 - Cents(100),
       category |-> "shopping", location |-> "domestic"],
      [amount |-> Cents(450), category |-> "crypto"],
      [desc |-> "Flight", category |-> "travel", location |-> "international"],
      NoFields }

Profiles == {"conservative", "standard", "flexible", "premium"}

DailySpentSet == {0, Cents(2000)}

SeqsUpTo(S, n) == UNION { [1..k -> S] : k \in 0..n }

NoSummary == [total_transactions |-> -1]

----------------------------------------------------------------------------
(* State machine *)

\* No invocation of run_monte_carlo: the sampler's variables at rest.
MCIdle ==
    /\ np_random = 0
    /\ base_salary = 0
    /\ base_expenses = 0
    /\ variables = NoVariables
    /\ num_sims = 0
    /\ months = 12
    /\ sim = 0
    /\ outcomes = <<>>
    /\ mc_pc = "idle"
    /\ mc_returned = <<>>

\* No evaluation by simulate_vtc: the evaluator's variables at rest.
VTCIdle ==
    /\ transactions = <<>>
    /\ rules_profile = "standard"
    /\ daily_spent = 0
    /\ idx = 1
    /\ sim_feed = <<>>
    /\ running_daily_total = 0
    /\ pc = "idle"
    /\ summary = NoSummary
    /\ recommendations = <<>>

\* A CollaborativeBudgetManager as __init__ leaves it, and no call made.
CollabIdle ==
    /\ budgets = NoFields
    /\ invites = NoFields
    /\ collab_returned = <<>>

\* A DAOGovernanceManager as __init__ leaves it, and no call made.
DAOIdle ==
    /\ member_registry = NoFields
    /\ communities = NoFields
    /\ dao_result = [op |-> None]

Init ==
    /\ transactions \in SeqsUpTo(TxSet, MaxLen)
    /\ rules_profile \in Profiles
    /\ daily_spent \in DailySpentSet
    /\ idx = 1
    /\ sim_feed = <<>>
    /\ running_daily_total = daily_spent
    /\ pc = "loop"
    /\ summary = NoSummary
    /\ recommendations = <<>>
    /\ MCIdle
    /\ CollabIdle
    /\ DAOIdle

\* for tx in transactions: one iteration
LoopBody ==
    /\ pc = "loop"
    /\ idx <= Len(transactions)
    /\ LET r == ProcessTx(transactions[idx], get_vtc_rules(rules_profile),
                          running_daily_total)
       IN  /\ sim_feed' = AppendResult(sim_feed, r)
           /\ running_daily_total' = r.running_daily_total
    /\ idx' = idx + 1
    /\ UNCHANGED <<transactions, rules_profile, daily_spent, pc, summary,
                   recommendations>>
    /\ UNCHANGED <<mc_vars, collab_vars, dao_vars>>

\* return sim_feed
Return ==
    /\ pc = "loop"
    /\ idx > Len(transactions)
    /\ pc' = "returned"
    /\ UNCHANGED <<transactions, rules_profile, daily_spent, idx, sim_feed,
                   running_daily_total, summary, recommendations>>
    /\ UNCHANGED <<mc_vars, collab_vars, dao_vars>>

\* vtc_summary = calculate_vtc_summary(sim_feed), on the returned feed
Summarize ==
    /\ pc = "returned"
    /\ summary' = calculate_vtc_summary(sim_feed)
    /\ pc' = "summarized"
    /\ UNCHANGED <<transactions, rules_profile, daily_spent, idx, sim_feed,
                   running_daily_total, recommendations>>
    /\ UNCHANGED <<mc_vars, collab_vars, dao_vars>>

\* recommendations = get_vtc_recommendations(sim_feed, rules_profile)
Recommend ==
    /\ pc = "summarized"
    /\ recommendations' = get_vtc_recommendations(sim_feed, rules_profile)
    /\ pc' = "recommended"
    /\ UNCHANGED <<transactions, rules_profile, daily_spent, idx, sim_feed,
                   running_daily_total, summary>>
    /\ UNCHANGED <<mc_vars, collab_vars, dao_vars>>

Next == LoopBody \/ Return \/ Summarize \/ Recommend

Spec == Init /\ [][Next]_vars

----------------------------------------------------------------------------
(* State machine of the sampler *)

BaseInputs ==
    { <<Cents(4000), Cents(2500)>>, <<Cents(2000), Cents(1500)>>,
      <<0, Cents(1500)>>, <<Cents(3000), 0>>, <<0, 0>> }

VariablesInputs ==
    { NoVariables,
      [upskill_boost |-> <<25>>, expense_reduction |-> <<20>>,
       side_income |-> <<Cents(500)>>],
      [upskill_boost |-> <<0, 15>>, expense_reduction |-> <<0, 10>>,
       side_income |-> <<0, Cents(100), Cents(400)>>],
      [side_income |-> <<0, Cents(100)>>] }

MonthsInputs == {12, 6}

InitMC ==
    /\ VTCIdle
    /\ CollabIdle
    /\ DAOIdle
    /\ np_random \in 0..(RngMod - 1)
    /\ \E b \in BaseInputs : base_salary = b[1] /\ base_expenses = b[2]
    /\ variables \in VariablesInputs
    /\ num_sims \in (0 - 1)..MaxSims
    /\ months \in MonthsInputs
    /\ sim = 0
    /\ outcomes = <<>>
    /\ mc_pc = "sampling"
    /\ mc_returned = <<>>

\* for sim in range(num_sims): one iteration
Sample ==
    /\ mc_pc = "sampling"
    /\ sim < num_sims
    /\ LET d == SampleOnce(np_random, base_salary, base_expenses, variables, months)
       IN  /\ outcomes' = Append(outcomes, d.outcome)
           /\ np_random' = d.state
    /\ sim' = sim + 1
    /\ UNCHANGED <<base_salary, base_expenses, variables, num_sims, months, mc_pc,
                   mc_returned>>
    /\ UNCHANGED <<vtc_vars, collab_vars, dao_vars>>

\* The loop has ended: sort, select the top paths, compute the statistics, return.
Finish ==
    /\ mc_pc = "sampling"
    /\ sim >= num_sims
    /\ mc_returned' = Append(mc_returned,
                             Bundle(base_salary, base_expenses, months, outcomes))
    /\ mc_pc' = "done"
    /\ UNCHANGED <<np_random, base_salary, base_expenses, variables, num_sims, months,
                   sim, outcomes>>
    /\ UNCHANGED <<vtc_vars, collab_vars, dao_vars>>

\* The process calls run_monte_carlo again, with the same arguments.
CallAgain ==
    /\ mc_pc = "done"
    /\ Len(mc_returned) < MaxCalls
    /\ sim' = 0
    /\ outcomes' = <<>>
    /\ mc_pc' = "sampling"
    /\ UNCHANGED <<np_random, base_salary, base_expenses, variables, num_sims, months,
                   mc_returned>>
    /\ UNCHANGED <<vtc_vars, collab_vars, dao_vars>>

NextMC == Sample \/ Finish \/ CallAgain

SpecMC == InitMC /\ [][NextMC]_vars

----------------------------------------------------------------------------
(* Collaborative budgets and their invite codes: src/collaborative.py *)

\* Most join_with_invite calls made on one manager.
MaxJoins == 3

\* The return value None (a record, so that it compares with the dicts).
NoResult == [is_none |-> TRUE]

\* Identifiers _generate_id("budget") returns: a prefix and twelve hex digits
\* of a hash of the clock.
BudgetIds == {"budget_1", "budget_2"}

\* Codes generate_invite_code returns: the first eight characters of
\* _generate_id("invite"), upper-cased, that is "INVITE_" and one hex digit of
\* a hash of the clock.  Two of the sixteen.
InviteCodes == {"INVITE_A", "INVITE_B"}

MemberNames == {"Partner B", "Partner C"}

BudgetMember(name, role, income, contribution_percent) ==
    [name |-> name, role |-> role, income |-> income,
     contribution_percent |-> contribution_percent]

\* _rebalance_contributions on a member list: equal shares of 100
rebalance_contributions(members) ==
    IF Len(members) > 0
    THEN [k \in 1..Len(members) |->
             [members[k] EXCEPT !.contribution_percent = Frac(100, Len(members))]]
    ELSE members

\* add_member: the budgets it leaves and the member it returns
add_member(bs, budget_id, name, income) ==
    IF budget_id \notin DOMAIN bs
    THEN [budgets |-> bs, member |-> NoResult]
    ELSE LET new_member == BudgetMember(name, "contributor", income, R(0))
             members    == rebalance_contributions(
                               Append(bs[budget_id].members, new_member))
         IN  [budgets |-> [bs EXCEPT ![budget_id].members = members],
              member  |-> members[Len(members)]]

\* join_with_invite: the budgets and invites it leaves and what it returns
join_with_invite(bs, inv, invite_code, name, income) ==
    IF invite_code \notin DOMAIN inv
    THEN [budgets |-> bs, invites |-> inv, result |-> NoResult]
    ELSE IF inv[invite_code].used
    THEN [budgets |-> bs, invites |-> inv, result |-> NoResult]
    ELSE LET budget_id == inv[invite_code].budget_id
             added     == add_member(bs, budget_id, name, income)
         IN  IF added.member # NoResult
             THEN [budgets |-> added.budgets,
                   invites |-> [inv EXCEPT ![invite_code].used = TRUE],
                   result  |-> [success |-> TRUE, budget_id |-> budget_id,
                                member |-> added.member]]
             ELSE [budgets |-> bs, invites |-> inv, result |-> NoResult]

InitCollab ==
    /\ VTCIdle
    /\ MCIdle
    /\ DAOIdle
    /\ budgets = NoFields
    /\ invites = NoFields
    /\ collab_returned = <<>>

\* create_budget(...): a new budget whose only member is its creator
CreateBudget ==
    /\ \E budget_id \in BudgetIds \ DOMAIN budgets :
          budgets' = (budget_id :>
                        [members |-> <<BudgetMember("Partner A", "owner",
                                                    Cents(4000), R(100))>>,
                         status |-> "active"]) @@ budgets
    /\ UNCHANGED <<invites, collab_returned>>
    /\ UNCHANGED <<vtc_vars, mc_vars, dao_vars>>

\* generate_invite_code(budget_id): the code is written over any invite of
\* the same code; budget_id is not looked up.
GenerateInviteCode ==
    /\ \E budget_id \in BudgetIds, invite_code \in InviteCodes :
          invites' = (invite_code :> [budget_id |-> budget_id, used |-> FALSE])
                     @@ invites
    /\ UNCHANGED <<budgets, collab_returned>>
    /\ UNCHANGED <<vtc_vars, mc_vars, dao_vars>>

\* join_with_invite(invite_code, name, income)
JoinWithInvite ==
    /\ Len(collab_returned) < MaxJoins
    /\ \E invite_code \in InviteCodes, name \in MemberNames :
          LET out == join_with_invite(budgets, invites, invite_code, name, Cents(3500))
          IN  /\ budgets' = out.budgets
              /\ invites' = out.invites
              /\ collab_returned' =
                    Append(collab_returned,
                           [invite_code |-> invite_code, result |-> out.result])
    /\ UNCHANGED <<vtc_vars, mc_vars, dao_vars>>

NextCollab == CreateBudget \/ GenerateInviteCode \/ JoinWithInvite

SpecCollab == InitCollab /\ [][NextCollab]_vars

----------------------------------------------------------------------------
(* DAO communities and their proposals: src/dao_governance.py *)

\* Most votes cast, by all members together, on one manager.
MaxVotes == 2

\* Most proposals created in one community.
MaxProposals == 1

\* Largest voting power a member is let to reach by joining with passports.
MaxVotingPower == 25

\* The address that creates the community, the addresses that join it, and
\* the addresses calls are made for.
CreatorAddress == "0x1111"
JoinerAddresses == {"0x2222"}
Addresses == {CreatorAddress} \cup JoinerAddresses

\* The community the model creates; calls made before it exists name a
\* community the manager does not have.
CommunityIds == {"community_1"}
CommunityArgs == CommunityIds

\* passport_nft_id arguments of join_community: none, or a bronze passport
PassportInputs == {None, "bronze_passport_003"}

Votes == {"for", "against", "abstain", "maybe"}

DAOMember(address) ==
    [address |-> address, passport_nfts |-> <<>>, voting_power |-> 0,
     proposals_created |-> 0, votes_cast |-> 0, reputation_score |-> 0]

\* _calculate_voting_power: by the tier named in the identifier
calculate_voting_power(nft_id) ==
    CASE nft_id = "gold_passport_001" -> 100
      [] nft_id = "silver_passport_002" -> 50
      [] nft_id = "bronze_passport_003" -> 25
      [] OTHER -> 10

\* _get_or_create_member: the registry with the address in it
get_or_create_member(registry, address) ==
    IF address \notin DOMAIN registry
    THEN (address :> DAOMember(address)) @@ registry
    ELSE registry

\* next((m for m in community.members if m.address == address), None) is not None
IsMember(community, address) ==
    \E k \in 1..Len(community.members) : community.members[k] = address

\* Position of next((p for p in community.proposals if p.proposal_id == id), None),
\* 0 for None
FindProposal(community, proposal_id) ==
    LET hits == {k \in 1..Len(community.proposals) :
                    community.proposals[k].proposal_id = proposal_id}
    IN  IF hits = {} THEN 0 ELSE CHOOSE k \in hits : \A h \in hits : k <= h

Failure(error) == [success |-> FALSE, error |-> error]

\* Variant: only a rejected proposal is closed to votes.
VotingHasEndedIfRejected(proposal) == proposal.status = "rejected"

\* if proposal.status != "active"
VotingHasEnded(proposal) == proposal.status # "active"

\* cast_vote: the registry and communities it leaves and the dict it returns
cast_vote(registry, comms, community_id, proposal_id, voter_address, vote) ==
    LET same(result) == [member_registry |-> registry, communities |-> comms,
                         result |-> result]
    IN
    IF community_id \notin DOMAIN comms THEN same(Failure("Community not found"))
    ELSE
    LET community == comms[community_id]
        k         == FindProposal(community, proposal_id)
    IN
    IF k = 0 THEN same(Failure("Proposal not found"))
    ELSE IF VotingHasEnded(community.proposals[k])
    THEN same(Failure("Proposal voting has ended"))
    ELSE IF ~IsMember(community, voter_address)
    THEN same(Failure("Not a community member"))
    ELSE IF vote \notin {"for", "against", "abstain"}
    THEN same(Failure("Invalid vote option"))
    ELSE
    LET voting_power == registry[voter_address].voting_power
        proposal == community.proposals[k]
        voted ==
            CASE vote = "for" -> [proposal EXCEPT !.votes_for = @ + voting_power]
              [] vote = "against" -> [proposal EXCEPT !.votes_against = @ + voting_power]
              [] vote = "abstain" -> [proposal EXCEPT !.votes_abstain = @ + voting_power]
    IN  [member_registry |->
            [registry EXCEPT ![voter_address].votes_cast = @ + 1,
                             ![voter_address].reputation_score = @ + 1],
         communities |-> [comms EXCEPT ![community_id].proposals[k] = voted],
         result |-> [success |-> TRUE, proposal_id |-> proposal_id, vote |-> vote,
                     voting_power_used |-> voting_power,
                     current_results |-> [for |-> voted.votes_for,
                                          against |-> voted.votes_against,
                                          abstain |-> voted.votes_abstain]]]

\* finalize_proposal: the communities it leaves and the dict it returns
finalize_proposal(comms, community_id, proposal_id) ==
    IF community_id \notin DOMAIN comms
    THEN [communities |-> comms, result |-> Failure("Community not found")]
    ELSE
    LET community == comms[community_id]
        k         == FindProposal(community, proposal_id)
    IN
    IF k = 0
    THEN [communities |-> comms, result |-> Failure("Proposal not found")]
    ELSE
    LET proposal == community.proposals[k]
        passed   == proposal.votes_for > proposal.votes_against
        status   == IF passed THEN "passed" ELSE "rejected"
    IN  [communities |-> [comms EXCEPT ![community_id].proposals[k].status = status],
         result |-> [success |-> TRUE, proposal_id |-> proposal_id,
                     final_status |-> status,
                     total_votes |-> proposal.votes_for + proposal.votes_against
                                     + proposal.votes_abstain,
                     votes_for |-> proposal.votes_for,
                     votes_against |-> proposal.votes_against,
                     votes_abstain |-> proposal.votes_abstain,
                     execution_result |-> IF passed THEN [executed |-> TRUE]
                                          ELSE NoResult]]

InitDAO ==
    /\ VTCIdle
    /\ MCIdle
    /\ CollabIdle
    /\ member_registry = NoFields
    /\ communities = NoFields
    /\ dao_result = [op |-> None]

\* create_community(name, country, city, creator_address)
CreateCommunity ==
    /\ \E community_id \in CommunityIds \ DOMAIN communities,
          creator_address \in {CreatorAddress} :
          /\ member_registry' =
                [get_or_create_member(member_registry, creator_address)
                    EXCEPT ![creator_address].voting_power = 100]
          /\ communities' = (community_id :> [members |-> <<creator_address>>,
                                               proposals |-> <<>>]) @@ communities
    /\ UNCHANGED dao_result
    /\ UNCHANGED <<vtc_vars, mc_vars, collab_vars>>

\* join_community(community_id, member_address, passport_nft_id)
JoinCommunity ==
    /\ \E community_id \in CommunityArgs, member_address \in JoinerAddresses,
          passport_nft_id \in PassportInputs :
          IF community_id \notin DOMAIN communities
          THEN UNCHANGED <<member_registry, communities>>
          ELSE LET registry == get_or_create_member(member_registry, member_address)
                   member   == registry[member_address]
               IN  /\ passport_nft_id # None =>
                         member.voting_power + calculate_voting_power(passport_nft_id)
                             <= MaxVotingPower
                   /\ member_registry' =
                         IF passport_nft_id # None
                         THEN [registry EXCEPT
                                 ![member_address].passport_nfts =
                                     Append(@, passport_nft_id),
                                 ![member_address].voting_power =
                                     @ + calculate_voting_power(passport_nft_id)]
                         ELSE [registry EXCEPT ![member_address].voting_power = 10]
                   /\ communities' =
                         IF ~IsMember(communities[community_id], member_address)
                         THEN [communities EXCEPT
                                 ![community_id].members = Append(@, member_address)]
                         ELSE communities
    /\ UNCHANGED dao_result
    /\ UNCHANGED <<vtc_vars, mc_vars, collab_vars>>

\* create_proposal(community_id, creator_address, ...); identifiers are
\* numbered in the order of creation.
CreateProposal ==
    /\ \E community_id \in CommunityArgs, creator_address \in Addresses :
          IF \/ community_id \notin DOMAIN communities
             \/ ~IsMember(communities[community_id], creator_address)
          THEN UNCHANGED <<member_registry, communities>>
          ELSE LET proposals == communities[community_id].proposals
               IN  /\ Len(proposals) < MaxProposals
                   /\ communities' =
                         [communities EXCEPT ![community_id].proposals =
                             Append(@, [proposal_id |-> Len(proposals) + 1,
                                        creator_address |-> creator_address,
                                        votes_for |-> 0, votes_against |-> 0,
                                        votes_abstain |-> 0, status |-> "active"])]
                   /\ member_registry' =
                         [member_registry EXCEPT
                             ![creator_address].proposals_created = @ + 1]
    /\ UNCHANGED dao_result
    /\ UNCHANGED <<vtc_vars, mc_vars, collab_vars>>

\* Votes cast so far: the members' votes_cast counters together.
RECURSIVE VotesCast(_, _)
VotesCast(registry, addresses) ==
    IF addresses = {} THEN 0
    ELSE LET a == CHOOSE x \in addresses : TRUE
         IN  registry[a].votes_cast + VotesCast(registry, addresses \ {a})

\* cast_vote(community_id, proposal_id, voter_address, vote)
CastVote ==
    /\ \E community_id \in CommunityArgs, proposal_id \in 1..MaxProposals,
          voter_address \in Addresses, vote \in Votes :
          LET out == cast_vote(member_registry, communities, community_id,
                               proposal_id, voter_address, vote)
          IN  /\ out.result.success =>
                    VotesCast(member_registry, DOMAIN member_registry) < MaxVotes
              /\ member_registry' = out.member_registry
              /\ communities' = out.communities
              /\ dao_result' = [op |-> "cast_vote", community_id |-> community_id,
                                proposal_id |-> proposal_id, result |-> out.result]
    /\ UNCHANGED <<vtc_vars, mc_vars, collab_vars>>

\* finalize_proposal(community_id, proposal_id)
FinalizeProposal ==
    /\ \E community_id \in CommunityArgs, proposal_id \in 1..MaxProposals :
          LET out == finalize_proposal(communities, community_id, proposal_id)
          IN  /\ communities' = out.communities
              /\ dao_result' = [op |-> "finalize_proposal",
                                community_id |-> community_id,
                                proposal_id |-> proposal_id, result |-> out.result]
    /\ UNCHANGED member_registry
    /\ UNCHANGED <<vtc_vars, mc_vars, collab_vars>>

NextDAO ==
    CreateCommunity \/ JoinCommunity \/ CreateProposal \/ CastVote \/ FinalizeProposal

SpecDAO == InitDAO /\ [][NextDAO]_vars

----------------------------------------------------------------------------
(* Properties of the evaluator *)

KnownProfiles == {"conservative", "standard", "flexible"}

Rules == get_vtc_rules(rules_profile)

\* The running total simulate_vtc held when it evaluated transaction i.
TotalBefore(i) == IF i = 1 THEN daily_spent ELSE sim_feed[i - 1].running_daily_total

Evaluated == 1..Len(sim_feed)

AllAmountsNonNegative ==
    \A i \in 1..Len(transactions) : TxGet(transactions[i], "amount", 0) >= 0

\* C1: simulate_vtc returns exactly one result per input transaction, in input
\* order: while the loop runs the feed holds one result for each transaction
\* already visited, the returned feed is as long as the input (empty for an
\* empty input), and result i carries the amount, category and location that
\* transaction i gives.
C1_OneResultPerTransactionInOrder ==
    /\ Len(sim_feed) = idx - 1
    /\ Len(sim_feed) <= Len(transactions)
    /\ pc # "loop" => Len(sim_feed) = Len(transactions)
    /\ \A i \in Evaluated :
         \A k \in DOMAIN transactions[i] \cap {"amount", "category", "location"} :
            sim_feed[i][k] = transactions[i][k]

C1_Witness ==
    /\ pc = "returned"
    /\ Len(transactions) >= 2
    /\ TxGet(transactions[1], "amount", 0) # TxGet(transactions[2], "amount", 0)
    /\ sim_feed[1].status = "Declined"
    /\ sim_feed[2].status = "Approved"

\* C2: over a sequence of non-negative amounts, every step of simulate_vtc
\* leaves the running daily total at least as large as it was, changes it only
\* when it has just appended an Approved result, and on appending an Approved
\* result raises it by exactly that transaction's amount.
C2_RunningTotalMonotone ==
    [][ AllAmountsNonNegative =>
          /\ running_daily_total' >= running_daily_total
          /\ running_daily_total' # running_daily_total =>
                /\ Len(sim_feed') = Len(sim_feed) + 1
                /\ sim_feed'[Len(sim_feed')].status = "Approved"
          /\ (/\ Len(sim_feed') = Len(sim_feed) + 1
              /\ sim_feed'[Len(sim_feed')].status = "Approved") =>
                running_daily_total' =
                    running_daily_total + TxGet(transactions[idx], "amount", 0)
      ]_vars

C2_Witness ==
    /\ AllAmountsNonNegative
    /\ running_daily_total > daily_spent
    /\ \E i \in Evaluated : sim_feed[i].status = "Declined"
    /\ \E i \in Evaluated : sim_feed[i].status = "Flagged"

\* The outcome the fixed rule order prescribes for result i: the first rule
\* that matches among international limit, single-transaction limit, daily
\* limit, cash-withdrawal rules, high-risk flag; otherwise Approved.
FirstMatch(i) ==
    LET r      == sim_feed[i]
        amount == r.amount
    IN  IF r.location = "international" /\ amount > Rules.max_international
        THEN <<"Declined", "Exceeds international limit">>
        ELSE IF amount > Rules.max_single_transaction
        THEN <<"Declined", "Exceeds single transaction limit">>
        ELSE IF TotalBefore(i) + amount > Rules.daily_limit
        THEN <<"Declined", "Would exceed daily limit">>
        ELSE IF r.category = "atm" /\ ~Rules.allow_atm
        THEN <<"Declined", "ATM withdrawals blocked by VTC settings">>
        ELSE IF r.category = "atm" /\ amount > Rules.max_atm_withdrawal
        THEN <<"Declined", "Exceeds ATM withdrawal limit">>
        ELSE IF /\ r.category # "atm"
                /\ r.risk_level = "high"
                /\ Rules.block_high_risk_merchants
                /\ amount * 10 > Rules.max_international * 8
        THEN <<"Flagged", "High-value transaction in high-risk category">>
        ELSE <<"Approved", "Transaction approved">>

\* C3: every result's status and reason are those of the first matching rule
\* in the fixed order; under the standard profile an international electronics
\* purchase of 1200 is Declined for the international limit (not the
\* single-transaction limit) with protected amount 1200.
C3_FirstMatchingRuleDecides ==
    \A i \in Evaluated :
        /\ <<sim_feed[i].status, sim_feed[i].reason>> = FirstMatch(i)
        /\ ( /\ rules_profile = "standard"
             /\ sim_feed[i].amount = Cents(1200)
             /\ sim_feed[i].category = "electronics"
             /\ sim_feed[i].location = "international" )
           => /\ sim_feed[i].status = "Declined"
              /\ sim_feed[i].reason = "Exceeds international limit"
              /\ sim_feed[i].savings_impact = Cents(1200)

C3_Witness ==
    /\ rules_profile = "standard"
    /\ \E i \in Evaluated :
          /\ sim_feed[i].amount = Cents(1200)
          /\ sim_feed[i].category = "electronics"
          /\ sim_feed[i].location = "international"
          /\ sim_feed[i].status = "Declined"
    /\ \E i \in Evaluated : sim_feed[i].reason = "Would exceed daily limit"

\* A domestic transaction outside the cash-withdrawal and high-risk categories,
\* evaluated under the standard profile with a running total of 0.
PlainAtZero(i) ==
    /\ rules_profile = "standard"
    /\ TotalBefore(i) = 0
    /\ sim_feed[i].location = "domestic"
    /\ sim_feed[i].category # "atm"
    /\ sim_feed[i].risk_level # "high"

\* C4: the single-transaction limit is strict: under the standard profile a
\* plain domestic transaction evaluated at running total 0 is Approved at
\* exactly 1000.00 and Declined for the single-transaction limit at 1000.01.
C4_SingleLimitIsStrict ==
    \A i \in Evaluated :
        PlainAtZero(i) =>
            /\ sim_feed[i].amount = Cents(1000) => sim_feed[i].status = "Approved"
            /\ sim_feed[i].amount = Cents(1000) + 1 =>
                  /\ sim_feed[i].status = "Declined"
                  /\ sim_feed[i].reason = "Exceeds single transaction limit"

C4_Witness ==
    /\ Len(sim_feed) >= 2
    /\ PlainAtZero(1) /\ sim_feed[1].amount = Cents(1000) + 1
    /\ sim_feed[1].status = "Declined"
    /\ PlainAtZero(2) /\ sim_feed[2].amount = Cents(1000)
    /\ sim_feed[2].status = "Approved"

NotFlagged(r) == r.status # "Flagged"

\* C5: a high-risk-category transaction that passes the international,
\* single-transaction and daily-limit rules under a profile that blocks
\* high-risk merchants, with amount > 0.8 x max_international, is Flagged
\* (standard, 450, travel, domestic is); a Flagged result leaves the running
\* total where it was and protects 0; and the summary's approved total,
\* declined total and potential savings are those of the feed with its
\* Flagged results removed.
C5_FlaggedCountsNowhere ==
    /\ \A i \in Evaluated :
        LET r == sim_feed[i] IN
        /\ ( /\ r.category \in {"travel", "electronics"}
             /\ ~(r.location = "international" /\ r.amount > Rules.max_international)
             /\ r.amount <= Rules.max_single_transaction
             /\ TotalBefore(i) + r.amount <= Rules.daily_limit
             /\ Rules.block_high_risk_merchants
             /\ r.amount * 10 > Rules.max_international * 8 )
           => r.status = "Flagged"
        /\ ( /\ rules_profile = "standard" /\ r.amount = Cents(450)
             /\ r.category = "travel" /\ r.location = "domestic"
             /\ TotalBefore(i) + r.amount <= Rules.daily_limit )
           => r.status = "Flagged"
        /\ r.status = "Flagged" =>
             /\ r.running_daily_total = TotalBefore(i)
             /\ r.savings_impact = 0
    /\ pc = "summarized" =>
        LET rest == calculate_vtc_summary(SelectSeq(sim_feed, NotFlagged)) IN
        /\ summary.total_approved = rest.total_approved
        /\ summary.total_declined = rest.total_declined
        /\ summary.potential_savings = rest.potential_savings

C5_Witness ==
    /\ pc = "summarized"
    /\ rules_profile = "standard"
    /\ \E i \in Evaluated :
          /\ sim_feed[i].status = "Flagged"
          /\ sim_feed[i].amount = Cents(450)
          /\ sim_feed[i].category = "travel"
    /\ summary.flagged_count > 0
    /\ summary.total_approved > 0
    /\ summary.total_declined > 0

ApprovedResults == {i \in Evaluated : sim_feed[i].status = "Approved"}

\* C6: for the N results of an evaluated sequence, A of them Approved, the
\* summary's approval_rate is 100 x A / N, and it is 0, computed without a
\* division by zero, when N = 0.
C6_ApprovalRate ==
    pc = "summarized" =>
        LET N    == Len(sim_feed)
            A    == Cardinality(ApprovedResults)
            rate == summary.approval_rate
        IN  /\ rate.den # 0
            /\ N > 0 => rate.num * N = 100 * A * rate.den
            /\ N = 0 => rate.num = 0

C6_Witness ==
    /\ pc = "summarized"
    /\ Len(sim_feed) = 3
    /\ Cardinality(ApprovedResults) = 1
    /\ summary.approval_rate = [num |-> 100, den |-> 3]

\* C7: with a profile name other than conservative, standard or flexible,
\* simulate_vtc returns exactly the results it returns for the same
\* transactions and starting total under the name standard.
C7_UnknownProfileIsStandard ==
    (rules_profile \notin KnownProfiles /\ pc # "loop") =>
        sim_feed = simulate_vtc(transactions, "standard", daily_spent)

C7_Witness ==
    /\ rules_profile \notin KnownProfiles
    /\ pc = "returned"
    /\ \E i \in Evaluated : sim_feed[i].reason = "Exceeds ATM withdrawal limit"
    /\ \E i \in Evaluated : sim_feed[i].status = "Flagged"
    /\ sim_feed # simulate_vtc(transactions, "conservative", daily_spent)
    /\ sim_feed # simulate_vtc(transactions, "flexible", daily_spent)

\* The transaction with every missing field written out.
WithDefaults(tx) ==
    [desc     |-> IF "desc" \in DOMAIN tx THEN tx.desc ELSE "Unknown Transaction",
     amount   |-> IF "amount" \in DOMAIN tx THEN tx.amount ELSE 0,
     category |-> IF "category" \in DOMAIN tx THEN tx.category ELSE "shopping",
     location |-> IF "location" \in DOMAIN tx THEN tx.location ELSE "domestic"]

Complete(tx) == DOMAIN tx = {"desc", "amount", "category", "location"}

\* C8: a transaction with missing fields gets the result of the transaction
\* with amount 0, location domestic, category shopping and the placeholder
\* description in their place (so a missing category has the medium risk
\* tier); a category outside the category table has the medium risk tier and
\* its result is never Flagged.
C8_MissingFieldsDefault ==
    \A i \in Evaluated :
        LET tx == transactions[i]
            r  == sim_feed[i]
        IN  /\ r = ProcessTx(WithDefaults(tx), Rules, TotalBefore(i))
            /\ "amount" \notin DOMAIN tx => r.amount = 0
            /\ "location" \notin DOMAIN tx => r.location = "domestic"
            /\ "desc" \notin DOMAIN tx => r.tx = "Unknown Transaction"
            /\ "category" \notin DOMAIN tx =>
                  r.category = "shopping" /\ r.risk_level = "medium"
            /\ r.category \notin DOMAIN TRANSACTION_CATEGORIES =>
                  r.risk_level = "medium" /\ r.status # "Flagged"

C8_Witness ==
    /\ rules_profile = "standard"
    /\ \E i \in Evaluated : transactions[i] = NoFields /\ sim_feed[i].status = "Approved"
    /\ \E i \in Evaluated :
          /\ ~Complete(transactions[i])
          /\ sim_feed[i].category \notin DOMAIN TRANSACTION_CATEGORIES
          /\ sim_feed[i].amount * 10 > Rules.max_international * 8
          /\ sim_feed[i].status = "Approved"

\* Sum of the protected amounts of the first n results.
RECURSIVE ProtectedUpTo(_)
ProtectedUpTo(n) ==
    IF n = 0 THEN 0 ELSE ProtectedUpTo(n - 1) + sim_feed[n].savings_impact

\* C9: every Declined result protects exactly its amount and every Approved
\* result protects 0; hence the summary's potential_savings is the sum of the
\* protected amounts and equals its total_declined.
C9_ProtectedAmounts ==
    /\ \A i \in Evaluated :
          /\ sim_feed[i].status = "Declined" =>
                sim_feed[i].savings_impact = sim_feed[i].amount
          /\ sim_feed[i].status = "Approved" => sim_feed[i].savings_impact = 0
    /\ pc = "summarized" =>
          /\ summary.potential_savings = ProtectedUpTo(Len(sim_feed))
          /\ summary.potential_savings = summary.total_declined

C9_Witness ==
    /\ pc = "summarized"
    /\ \E i \in Evaluated : sim_feed[i].reason = "Exceeds ATM withdrawal limit"
    /\ \E i \in Evaluated : sim_feed[i].reason = "Exceeds international limit"
    /\ \E i \in Evaluated : sim_feed[i].status = "Approved" /\ sim_feed[i].amount > 0
    /\ summary.potential_savings > 0

\* Sum of the amounts of the first n results that have the category and status.
RECURSIVE AmountUpTo(_, _, _)
AmountUpTo(n, cat, status) ==
    IF n = 0 THEN 0
    ELSE AmountUpTo(n - 1, cat, status)
         + (IF sim_feed[n].category = cat /\ sim_feed[n].status = status
            THEN sim_feed[n].amount ELSE 0)

\* C10: in the summary's per-category breakdown, every category's approved
\* figure is the sum of the amounts of its Approved results and its declined
\* figure is the sum of the amounts of its Declined results.
C10_BreakdownByStatus ==
    pc = "summarized" =>
        \A cat \in DOMAIN summary.category_breakdown :
            /\ summary.category_breakdown[cat].approved =
                  AmountUpTo(Len(sim_feed), cat, "Approved")
            /\ summary.category_breakdown[cat].declined =
                  AmountUpTo(Len(sim_feed), cat, "Declined")

DeclinedResults == {i \in Evaluated : sim_feed[i].status = "Declined"}

\* Sum of the amounts of the first n results that are Declined.
RECURSIVE DeclinedAmountUpTo(_)
DeclinedAmountUpTo(n) ==
    IF n = 0 THEN 0
    ELSE DeclinedAmountUpTo(n - 1)
         + (IF sim_feed[n].status = "Declined" THEN sim_feed[n].amount ELSE 0)

IfThen(cond, advice) == IF cond THEN <<advice>> ELSE <<>>

\* The advice the four independent checks give, in their fixed order.
FiredAdvice ==
    IfThen(\E i \in DeclinedResults : sim_feed[i].amount > Cents(500), SplitAdvice)
    \o IfThen(Cardinality({i \in DeclinedResults :
                              sim_feed[i].location = "international"}) > 2,
              TravelAdvice)
    \o IfThen(DeclinedAmountUpTo(Len(sim_feed)) > Cents(1000), SavedAdvice)
    \o IfThen(rules_profile = "conservative", ConservativeAdvice)
    \o IfThen(rules_profile = "flexible", FlexibleAdvice)

\* C11: get_vtc_recommendations evaluates its checks independently and emits
\* them in the fixed order split-large-purchases, raise-international-limits,
\* redirect-savings, profile advice; the default message is returned iff none
\* of them fired, so the list is never empty.
C11_RecommendationsIndependentInOrder ==
    pc = "recommended" =>
        /\ recommendations # <<>>
        /\ FiredAdvice # <<>> => recommendations = FiredAdvice
        /\ FiredAdvice = <<>> <=> recommendations = <<DefaultAdvice>>

C11_Witness ==
    /\ pc = "recommended"
    /\ recommendations = <<SplitAdvice, TravelAdvice, SavedAdvice, ConservativeAdvice>>

\* The transactions whose result in feed is Approved, in input order.
RECURSIVE KeepApproved(_, _)
KeepApproved(txs, feed) ==
    IF txs = <<>> \/ feed = <<>> THEN <<>>
    ELSE (IF Head(feed).status = "Approved" THEN <<Head(txs)>> ELSE <<>>)
         \o KeepApproved(Tail(txs), Tail(feed))

IsApproved(r) == r.status = "Approved"

\* Result i is of a domestic transaction outside the cash-withdrawal and
\* high-risk categories, within the single-transaction limit.
PlainWithinSingleLimit(i) ==
    /\ sim_feed[i].location = "domestic"
    /\ sim_feed[i].category # "atm"
    /\ sim_feed[i].risk_level # "high"
    /\ sim_feed[i].amount <= Rules.max_single_transaction

\* C23: Declined and Flagged transactions consume no daily budget: each
\* leaves the running total where it was; deleting every transaction whose
\* verdict was Declined or Flagged and re-evaluating with the same profile and
\* starting total gives the remaining transactions the same results (verdicts
\* and running totals); and after a daily-limit decline a later, smaller
\* transaction that fits the remaining budget is not declined for the daily
\* limit, and is Approved when no other rule applies to it.
C23_DeclinesConsumeNoBudget ==
    /\ \A i \in Evaluated :
          sim_feed[i].status \in {"Declined", "Flagged"} =>
              sim_feed[i].running_daily_total = TotalBefore(i)
    /\ pc = "returned" =>
          simulate_vtc(KeepApproved(transactions, sim_feed), rules_profile, daily_spent)
              = SelectSeq(sim_feed, IsApproved)
    /\ \A i, j \in Evaluated :
          ( /\ i < j
            /\ sim_feed[i].reason = "Would exceed daily limit"
            /\ sim_feed[j].amount < sim_feed[i].amount
            /\ TotalBefore(j) + sim_feed[j].amount <= Rules.daily_limit )
          => /\ sim_feed[j].reason # "Would exceed daily limit"
             /\ PlainWithinSingleLimit(j) => sim_feed[j].status = "Approved"

C23_Witness ==
    /\ pc = "returned"
    /\ Len(sim_feed) = 3
    /\ sim_feed[1].reason = "Would exceed daily limit"
    /\ sim_feed[2].status = "Flagged"
    /\ sim_feed[3].status = "Approved"
    /\ sim_feed[3].amount > 0
    /\ sim_feed[3].amount < sim_feed[1].amount

\* Result i passed the international, single-transaction and daily-limit rules.
PassesLimits(i) ==
    /\ ~(sim_feed[i].location = "international"
          /\ sim_feed[i].amount > Rules.max_international)
    /\ sim_feed[i].amount <= Rules.max_single_transaction
    /\ TotalBefore(i) + sim_feed[i].amount <= Rules.daily_limit

\* The verdict result i would get under the same profile with cash
\* withdrawals disallowed.
VerdictWithAtmDisallowed(i) ==
    Verdict(sim_feed[i].amount, sim_feed[i].location, sim_feed[i].category,
            CatInfo(sim_feed[i].category), [Rules EXCEPT !.allow_atm = FALSE],
            TotalBefore(i))

\* C24: a cash-withdrawal (atm) transaction that passes the international,
\* single-transaction and daily-limit rules is Declined when the profile
\* disallows cash withdrawals, otherwise Declined when its amount exceeds the
\* profile's max ATM withdrawal, and otherwise Approved with the running total
\* advanced by its amount; a cash-withdrawal transaction is never Flagged.
C24_CashWithdrawalRules ==
    \A i \in Evaluated :
        sim_feed[i].category = "atm" =>
            /\ sim_feed[i].status # "Flagged"
            /\ VerdictWithAtmDisallowed(i).status # "Flagged"
            /\ PassesLimits(i) =>
                  /\ VerdictWithAtmDisallowed(i).status = "Declined"
                  /\ VerdictWithAtmDisallowed(i).reason =
                        "ATM withdrawals blocked by VTC settings"
                  /\ IF ~Rules.allow_atm
                     THEN /\ sim_feed[i].status = "Declined"
                          /\ sim_feed[i].reason = "ATM withdrawals blocked by VTC settings"
                     ELSE IF sim_feed[i].amount > Rules.max_atm_withdrawal
                     THEN /\ sim_feed[i].status = "Declined"
                          /\ sim_feed[i].reason = "Exceeds ATM withdrawal limit"
                          /\ sim_feed[i].running_daily_total = TotalBefore(i)
                     ELSE /\ sim_feed[i].status = "Approved"
                          /\ sim_feed[i].running_daily_total =
                                TotalBefore(i) + sim_feed[i].amount

C24_Witness ==
    /\ rules_profile = "standard"
    /\ \E i \in Evaluated :
          /\ sim_feed[i].category = "atm"
          /\ sim_feed[i].location = "international"
          /\ sim_feed[i].status = "Approved"
          /\ TotalBefore(i) > 0
          /\ sim_feed[i].running_daily_total > TotalBefore(i)
    /\ \E i \in Evaluated :
          /\ sim_feed[i].category = "atm" /\ PassesLimits(i)
          /\ sim_feed[i].reason = "Exceeds ATM withdrawal limit"

\* Sum of the amounts of the first n results that are Approved.
RECURSIVE ApprovedAmountUpTo(_)
ApprovedAmountUpTo(n) ==
    IF n = 0 THEN 0
    ELSE ApprovedAmountUpTo(n - 1)
         + (IF sim_feed[n].status = "Approved" THEN sim_feed[n].amount ELSE 0)

\* C27: when the starting daily total does not exceed the profile's daily
\* limit and all amounts are non-negative, the running daily total never
\* exceeds the daily limit at any point of the evaluation: at every step it is
\* the starting total plus the sum of the amounts Approved so far.
C27_RunningTotalWithinDailyLimit ==
    (daily_spent <= Rules.daily_limit /\ AllAmountsNonNegative) =>
        /\ running_daily_total <= Rules.daily_limit
        /\ running_daily_total = daily_spent + ApprovedAmountUpTo(Len(sim_feed))
        /\ \A i \in Evaluated :
              /\ sim_feed[i].running_daily_total <= Rules.daily_limit
              /\ sim_feed[i].running_daily_total = daily_spent + ApprovedAmountUpTo(i)

C27_Witness ==
    /\ AllAmountsNonNegative
    /\ daily_spent > 0 /\ daily_spent <= Rules.daily_limit
    /\ Len(sim_feed) = 3
    /\ sim_feed[1].status = "Approved" /\ sim_feed[1].amount > 0
    /\ sim_feed[2].reason = "Would exceed daily limit"
    /\ sim_feed[2].amount <= Rules.max_single_transaction
    /\ sim_feed[3].status = "Approved" /\ sim_feed[3].amount > 0

\* C28: the starting total is the evaluator's only state: for every split of
\* the sequence into A followed by B, the results are those of A from the
\* starting total s followed by those of B from s plus the amounts Approved
\* in A; result i is the one the first i transactions alone give; and a fresh
\* evaluation of the same arguments gives the same results.  Stated of the
\* feed simulate_vtc returns.
C28_StartingTotalIsOnlyState ==
    pc = "returned" =>
          /\ sim_feed = simulate_vtc(transactions, rules_profile, daily_spent)
          /\ \A i \in Evaluated :
                sim_feed[i] = simulate_vtc(SubSeq(transactions, 1, i), rules_profile,
                                           daily_spent)[i]
          /\ \A k \in 0..Len(transactions) :
                LET A  == SubSeq(transactions, 1, k)
                    B  == SubSeq(transactions, k + 1, Len(transactions))
                    rA == simulate_vtc(A, rules_profile, daily_spent)
                IN  sim_feed = rA \o simulate_vtc(B, rules_profile,
                                     daily_spent + SumAmountOf(rA, "Approved"))

C28_Witness ==
    /\ pc = "returned"
    /\ daily_spent > 0
    /\ Len(sim_feed) = 3
    /\ sim_feed[1].status = "Approved" /\ sim_feed[1].amount > 0
    /\ sim_feed[2].status = "Approved" /\ sim_feed[2].amount > 0
    /\ sim_feed[3].reason = "Would exceed daily limit"
    /\ daily_spent + sim_feed[3].amount <= Rules.daily_limit

----------------------------------------------------------------------------
(* Properties of the sampler and path ranker *)

\* The invocations of run_monte_carlo that have ended.
Ended == 1..Len(mc_returned)

\* The ended invocations that returned a bundle (did not raise).
Returned == {c \in Ended : "all_outcomes" \in DOMAIN mc_returned[c]}

\* Every scenario the model holds: those being sampled and those returned.
Scenarios ==
    {outcomes[k] : k \in 1..Len(outcomes)}
    \cup UNION {{mc_returned[c].all_outcomes[k] :
                    k \in 1..Len(mc_returned[c].all_outcomes)} : c \in Returned}

\* C12: two invocations of run_monte_carlo with identical base salary, base
\* expenses, lever candidate sets and sample count (the function takes no
\* seed) end with identical results, scenario for scenario.
C12_SameArgumentsSameScenarios ==
    \A c, d \in Ended : mc_returned[c] = mc_returned[d]

\* C13: an invocation of run_monte_carlo draws from a generator of its own:
\* no step of it changes the random state that other invocations read.
C13_NoSharedRandomState == [][np_random' = np_random]_vars

\* C14: every scenario's approval_prob lies in [0.10, 0.98] and its
\* stability_score in [0, 100], whatever the base salary, base expenses and
\* lever values (zero salary and zero expenses included).
C14_ScoresInRange ==
    \A o \in Scenarios :
        /\ o.approval_prob.den > 0
        /\ RLe(Frac(10, 100), o.approval_prob)
        /\ RLe(o.approval_prob, Frac(98, 100))
        /\ o.stability_score.den > 0
        /\ RLe(R(0), o.stability_score)
        /\ RLe(o.stability_score, R(100))

C14_Witness ==
    /\ \E k \in 1..Len(outcomes) : outcomes[k].salary = 0
    /\ \E k \in 1..Len(outcomes) :
          /\ outcomes[k].salary > 0
          /\ outcomes[k].monthly_savings < 0
          /\ outcomes[k].stability_score = R(0)

\* C15: any two distinct entries of a returned top-paths list have salaries
\* that differ by at least 200.
C15_TopPathsSalariesApart ==
    \A c \in Returned :
        LET top == mc_returned[c].top_paths IN
        \A i, j \in 1..Len(top) :
            i # j => Abs(top[i].salary - top[j].salary) >= Cents(200)

C15_Witness ==
    \E c \in Returned :
        LET r == mc_returned[c] IN
        /\ Len(r.top_paths) = 2
        /\ Len(r.all_outcomes) = 3
        /\ \A k \in 1..3 : r.all_outcomes[k].salary # r.all_outcomes[(k % 3) + 1].salary

\* The fields of scenario o that do not depend on the number of months.
MonthlyFieldsFollow(o) ==
    /\ o.salary * 100 = base_salary * (100 + o.upskill_boost) + o.side_income * 100
    /\ o.expenses * 100 = base_expenses * (100 - o.expense_cut)
    /\ o.monthly_savings = o.salary - o.expenses
    /\ o.visa_fund_met <=> o.total_savings_12m >= Cents(11208)

\* The lever draw boost 0.25, reduction 0.2, side income 500 on base 4000/2500.
IsExampleDraw(o) ==
    /\ base_salary = Cents(4000) /\ base_expenses = Cents(2500)
    /\ o.upskill_boost = 25 /\ o.expense_cut = 20 /\ o.side_income = Cents(500)

ExampleValues(o) ==
    /\ o.salary = Cents(5500) /\ o.expenses = Cents(2000)
    /\ o.monthly_savings = Cents(3500) /\ o.total_savings_12m = Cents(42000)
    /\ o.visa_fund_met

\* C16 as stated: every scenario has salary = base_salary x (1 + boost) +
\* side_income, expenses = base_expenses x (1 - reduction), monthly_savings =
\* salary - expenses, total_savings_12m = 12 x monthly_savings and
\* visa_fund_met iff total_savings_12m >= 11208; the example draw on base
\* 4000/2500 gives 5500, 2000, 3500, 42000 and visa_fund_met.
C16_DerivedFieldsTwelveMonths ==
    \A o \in Scenarios :
        /\ MonthlyFieldsFollow(o)
        /\ o.total_savings_12m = 12 * o.monthly_savings
        /\ IsExampleDraw(o) => ExampleValues(o)

\* C16 as amended: total_savings_12m = months x monthly_savings, which is
\* 12 x monthly_savings when run_monte_carlo is called with its default
\* months = 12; the other fields and, for months = 12, the example as stated.
C16_DerivedFields ==
    \A o \in Scenarios :
        /\ MonthlyFieldsFollow(o)
        /\ o.total_savings_12m = months * o.monthly_savings
        /\ months = 12 => o.total_savings_12m = 12 * o.monthly_savings
        /\ (months = 12 /\ IsExampleDraw(o)) => ExampleValues(o)

C16_Witness ==
    /\ months = 12
    /\ \E k \in 1..Len(outcomes) : IsExampleDraw(outcomes[k]) /\ ExampleValues(outcomes[k])

\* C17: an invocation with a sample count of zero or less returns a bundle
\* with no scenarios, no top paths, total_simulations = 0 and zero means,
\* extrema and visa-fund rate.
C17_NoSamplesEmptyBundle ==
    \A c \in Ended :
        num_sims <= 0 =>
            LET r == mc_returned[c] IN
            /\ "statistics" \in DOMAIN r
            /\ r.all_outcomes = <<>>
            /\ r.top_paths = <<>>
            /\ r.statistics.total_simulations = 0
            /\ r.statistics.avg_salary.num = 0
            /\ r.statistics.avg_savings.num = 0
            /\ r.statistics.avg_approval_prob.num = 0
            /\ r.statistics.max_salary = 0 /\ r.statistics.min_salary = 0
            /\ r.statistics.max_savings = 0 /\ r.statistics.min_savings = 0
            /\ r.statistics.max_approval_prob.num = 0
            /\ r.statistics.visa_fund_success_rate.num = 0

ClampProb(p) == RMin(Frac(98, 100), RMax(Frac(10, 100), p))
ClampScore(x) == RMin(R(100), RMax(R(0), x))

SavingsBonus(total) ==
    IF total >= Cents(15000) THEN Frac(15, 100)
    ELSE IF total >= Cents(11208) THEN Frac(10, 100)
    ELSE IF total >= Cents(5000) THEN Frac(5, 100)
    ELSE R(0)

MonthlyBonus(monthly) == IF monthly >= Cents(500) THEN R(10) ELSE R(0)

\* C18: scoring never divides by zero: both scores of every scenario are
\* proper in-range numbers; with expenses 0 they are the scores of
\* salary/expense ratio 2, and with salary 0 the stability score is the one
\* of savings rate 0.
C18_DegenerateInputsScored ==
    \A o \in Scenarios :
        /\ o.approval_prob.den # 0 /\ o.stability_score.den # 0
        /\ RLe(Frac(10, 100), o.approval_prob) /\ RLe(o.approval_prob, Frac(98, 100))
        /\ RLe(R(0), o.stability_score) /\ RLe(o.stability_score, R(100))
        /\ o.expenses = 0 =>
              /\ o.approval_prob =
                    ClampProb(RAdd(RAdd(Frac(3, 4), SavingsBonus(o.total_savings_12m)),
                                   Frac(5, 100)))
              /\ o.salary > 0 =>
                    o.stability_score =
                        ClampScore(RAdd(RAdd(R(70),
                            RMin(R(20), Frac(o.monthly_savings * 100, o.salary))),
                            MonthlyBonus(o.monthly_savings)))
        /\ o.salary = 0 =>
              o.stability_score =
                  ClampScore(RAdd(R(IF o.expenses > 0 THEN 30 ELSE 70),
                                  MonthlyBonus(o.monthly_savings)))

C18_Witness ==
    /\ \E k \in 1..Len(outcomes) : outcomes[k].expenses = 0 /\ outcomes[k].salary = 0
    /\ \E k \in 1..Len(outcomes) : outcomes[k].expenses = 0 /\ outcomes[k].salary > 0

\* C19: the statistics of a returned bundle are those of all its scenarios:
\* total_simulations = N = the number of scenarios = the sample count,
\* visa_fund_success_rate = 100 x (scenarios with visa_fund_met) / N,
\* max_approval_prob is the largest approval_prob of a scenario, and
\* min/max salary and savings bound every scenario's salary and savings.
C19_StatisticsOverAllScenarios ==
    \A c \in Returned :
        LET all == mc_returned[c].all_outcomes
            st  == mc_returned[c].statistics
            N   == Len(all)
            met == Cardinality({k \in 1..N : all[k].visa_fund_met})
        IN  /\ N >= 1 /\ N = num_sims
            /\ st.total_simulations = N
            /\ st.visa_fund_success_rate.den # 0
            /\ st.visa_fund_success_rate.num * N = 100 * met * st.visa_fund_success_rate.den
            /\ \E k \in 1..N : all[k].approval_prob = st.max_approval_prob
            /\ \A k \in 1..N :
                  /\ RLe(all[k].approval_prob, st.max_approval_prob)
                  /\ st.min_salary <= all[k].salary /\ all[k].salary <= st.max_salary
                  /\ st.min_savings <= all[k].total_savings_12m
                  /\ all[k].total_savings_12m <= st.max_savings

C19_Witness ==
    \E c \in Returned :
        LET r == mc_returned[c] IN
        /\ Len(r.all_outcomes) = 3
        /\ Len(r.top_paths) < 3
        /\ r.statistics.visa_fund_success_rate = Frac(100, 3)
        /\ r.statistics.min_salary < r.statistics.max_salary

\* The default candidate sets the specification names.
StatedDefaults ==
    [upskill_boost |-> {0, 15, 25},
     expense_reduction |-> {0, 10, 20},
     side_income |-> {0, Cents(200), Cents(500)}]

\* The set a lever's value must come from: the caller's, when the caller
\* gave one for that lever, and the stated default set otherwise.
AllowedValues(lever) ==
    IF variables # NoVariables /\ lever \in DOMAIN variables
    THEN {variables[lever][k] : k \in 1..Len(variables[lever])}
    ELSE StatedDefaults[lever]

\* C20: each of a scenario's three lever values is a member of the caller's
\* candidate set for that lever, or of the default set {0, 0.15, 0.25},
\* {0, 0.1, 0.2}, {0, 200, 500} when the caller gave none for it (no mapping
\* at all, or a mapping that omits the lever).
C20_LeversFromCandidateSets ==
    \A o \in Scenarios :
        /\ o.upskill_boost \in AllowedValues("upskill_boost")
        /\ o.expense_cut \in AllowedValues("expense_reduction")
        /\ o.side_income \in AllowedValues("side_income")

\* The name the priority order boost, reduction, side income, balanced gives.
StatedName(p) ==
    IF p.upskill_boost >= 20 THEN "Career Accelerator Path"
    ELSE IF p.expense_cut >= 15 THEN "Frugal Pioneer Path"
    ELSE IF p.side_income >= Cents(400) THEN "Hustle Builder Path"
    ELSE IF p.upskill_boost > 0 /\ p.expense_cut > 0 THEN "Balanced Growth Path"
    ELSE "Steady Progress Path"

\* The top paths of every returned bundle.
TopPaths ==
    UNION {{mc_returned[c].top_paths[i] : i \in 1..Len(mc_returned[c].top_paths)} :
              c \in Returned}

\* C21: every selected path carries the name of the first matching rule in
\* the order boost >= 0.2 (Career Accelerator), reduction >= 0.15 (Frugal
\* Pioneer), side income >= 400 (Hustle Builder), boost > 0 and reduction > 0
\* (Balanced Growth), else Steady Progress; a path with boost >= 0.2 is Career
\* Accelerator whatever its other levers; only selected paths are named.
C21_PathNamedByFirstMatch ==
    /\ \A p \in TopPaths :
          /\ p.path_name = StatedName(p)
          /\ p.upskill_boost >= 20 => p.path_name = "Career Accelerator Path"
    /\ \A o \in Scenarios : "path_name" \notin DOMAIN o

C21_Witness ==
    /\ \E p \in TopPaths :
          /\ p.upskill_boost >= 20 /\ p.expense_cut >= 15 /\ p.side_income >= Cents(400)
          /\ p.path_name = "Career Accelerator Path"
    /\ \E p \in TopPaths : p.path_name = "Frugal Pioneer Path"
    /\ \E p \in TopPaths : p.path_name = "Steady Progress Path"

LeverPart(active, text, value) ==
    IF active THEN <<[text |-> text, value |-> value]>> ELSE <<>>

\* The materially active levers of p, in the order boost, reduction, side income.
ActiveLevers(p) ==
    LeverPart(p.upskill_boost >= 15, "% salary through upskilling", p.upskill_boost)
    \o LeverPart(p.expense_cut >= 10, "% expense reduction", p.expense_cut)
    \o LeverPart(p.side_income > 0, "side income", p.side_income)

TrajectoryText == <<[text |-> "Current trajectory maintained", value |-> 0]>>

\* C22: a path's description lists exactly its materially active levers
\* (boost >= 0.15, reduction >= 0.1, side income > 0), in that order, as the
\* parts joined by " + ", and is the current-trajectory text iff none of the
\* three levers is materially active.
C22_DescriptionListsActiveLevers ==
    \A p \in TopPaths :
        /\ ActiveLevers(p) # <<>> => p.path_description = ActiveLevers(p)
        /\ p.path_description = TrajectoryText <=> ActiveLevers(p) = <<>>

C22_Witness ==
    /\ \E p \in TopPaths : Len(p.path_description) = 3
    /\ \E p \in TopPaths : p.path_description = TrajectoryText
    /\ \E p \in TopPaths :
          /\ p.upskill_boost = 15
          /\ p.path_description[1].text = "% salary through upskilling"

\* A selected path without the two fields selection adds: the scenario it copies.
ScenarioOf(p) == [f \in DOMAIN p \ {"path_name", "path_description"} |-> p[f]]

\* The place of scenario k in the ranking: behind every scenario of larger
\* approval_prob and every earlier-sampled scenario of equal approval_prob.
RankOf(all, k) ==
    1 + Cardinality({j \in 1..Len(all) :
                        \/ RLt(all[k].approval_prob, all[j].approval_prob)
                        \/ all[j].approval_prob = all[k].approval_prob /\ j < k})

Ranked(all) ==
    [i \in 1..Len(all) |-> all[CHOOSE k \in 1..Len(all) : RankOf(all, k) = i]]

\* The earliest-sampled scenario among those of highest approval_prob.
Best(all) ==
    all[CHOOSE k \in 1..Len(all) :
            /\ \A j \in 1..Len(all) : RLe(all[j].approval_prob, all[k].approval_prob)
            /\ \A j \in 1..(k - 1) : all[j].approval_prob # all[k].approval_prob]

\* C25: the top-paths list of a bundle has at most 3 entries, is ordered by
\* non-increasing approval_prob, begins (for a run with at least one scenario)
\* with the scenario of highest approval_prob, and scenarios of equal
\* approval_prob are considered for selection in the order they were sampled.
C25_TopPathsRankedStable ==
    \A c \in Returned :
        LET all == mc_returned[c].all_outcomes
            top == mc_returned[c].top_paths
        IN  /\ Len(top) <= 3
            /\ \A i, j \in 1..Len(top) :
                  i < j => RLe(top[j].approval_prob, top[i].approval_prob)
            /\ Len(all) >= 1 => Len(top) >= 1 /\ ScenarioOf(top[1]) = Best(all)
            /\ top = get_distinct_top_paths(Ranked(all), 3)

C25_Witness ==
    \E c \in Returned :
        LET all == mc_returned[c].all_outcomes
            top == mc_returned[c].top_paths
        IN  /\ Len(all) = 4 /\ Len(top) = 3
            /\ all[1].approval_prob = all[2].approval_prob
            /\ RLt(all[1].approval_prob, all[3].approval_prob)
            /\ ScenarioOf(top[1]) = all[3]
            /\ ScenarioOf(top[2]) = all[1]
            /\ ScenarioOf(top[3]) = all[2]

\* The positions of the ranked list L selected by the walk over its first i
\* positions: a position is selected iff fewer than 3 are selected already and
\* its salary is at least 200 away from the salary at every selected position.
RECURSIVE SelectedAmong(_, _)
SelectedAmong(L, i) ==
    IF i = 0 THEN {}
    ELSE LET before == SelectedAmong(L, i - 1)
         IN  IF /\ Cardinality(before) < 3
                /\ \A j \in before : Abs(L[i].salary - L[j].salary) >= Cents(200)
             THEN before \cup {i}
             ELSE before

\* The k-th smallest element of a set of positions.
KthOf(S, k) == CHOOSE x \in S : Cardinality({y \in S : y < x}) = k - 1

\* C26: selection is greedy and salary-only: walking the ranked scenarios
\* until 3 paths are selected, a scenario is selected iff its salary differs
\* by at least 200 from every path selected before it; a scenario whose salary
\* equals that of a higher-ranked selected path is never selected, whatever
\* its other levers; and when fewer than 3 paths are returned every scenario
\* of the run is within less than 200 of the salary of some returned path.
C26_GreedySalaryOnlySelection ==
    \A c \in Returned :
        LET all == mc_returned[c].all_outcomes
            top == mc_returned[c].top_paths
            L   == Ranked(all)
            Sel == SelectedAmong(L, Len(L))
        IN  /\ Len(top) = Cardinality(Sel)
            /\ \A k \in 1..Len(top) : ScenarioOf(top[k]) = L[KthOf(Sel, k)]
            /\ \A i \in 1..Len(L) : \A k \in 1..Len(top) :
                  (L[i].salary = top[k].salary /\ L[i] # ScenarioOf(top[k])) =>
                      /\ \E j \in 1..(i - 1) : L[j] = ScenarioOf(top[k])
                      /\ \A m \in 1..Len(top) : ScenarioOf(top[m]) # L[i]
            /\ Len(top) < 3 =>
                  \A k \in 1..Len(all) : \E m \in 1..Len(top) :
                      Abs(all[k].salary - top[m].salary) < Cents(200)

C26_Witness ==
    \E c \in Returned :
        LET all == mc_returned[c].all_outcomes
            top == mc_returned[c].top_paths
        IN  /\ Len(all) = 4 /\ Len(top) = 2
            /\ \E k \in 1..4 :
                  /\ all[k].salary = top[1].salary
                  /\ all[k].expense_cut # top[1].expense_cut
                  /\ RLt(all[k].approval_prob, top[1].approval_prob)
                  /\ RLt(top[2].approval_prob, all[k].approval_prob)

----------------------------------------------------------------------------
(* Properties of the invite codes *)

\* The join_with_invite calls with the code that returned a member.
SuccessfulJoins(invite_code) ==
    {i \in 1..Len(collab_returned) :
        /\ collab_returned[i].invite_code = invite_code
        /\ collab_returned[i].result # NoResult}

\* The step is a join_with_invite call that returned None.
FailedJoinStep ==
    /\ Len(collab_returned') = Len(collab_returned) + 1
    /\ collab_returned'[Len(collab_returned')].result = NoResult

\* C29: an invite code is single-use: over any sequence of join_with_invite
\* calls a code adds at most one member; once a join with the code has
\* succeeded every later join with it returns None; and a join that fails
\* leaves the member lists and the invites (their used marks) unchanged.
C29_InviteCodeSingleUse ==
    /\ [](\A invite_code \in InviteCodes :
            /\ Cardinality(SuccessfulJoins(invite_code)) <= 1
            /\ \A i \in SuccessfulJoins(invite_code) :
                  \A j \in (i + 1)..Len(collab_returned) :
                     collab_returned[j].invite_code = invite_code =>
                        collab_returned[j].result = NoResult)
    /\ [][FailedJoinStep => budgets' = budgets /\ invites' = invites]_vars

----------------------------------------------------------------------------
(* Properties of the DAO proposals *)

Tallies(proposal) ==
    <<proposal.votes_for, proposal.votes_against, proposal.votes_abstain>>

\* The step is a call of the operation on the proposal (a call that leaves
\* every variable as it was, the recorded last result included, is no step).
CallOn(op, community_id, proposal_id) ==
    /\ dao_result' # dao_result
    /\ dao_result'.op = op
    /\ dao_result'.community_id = community_id
    /\ dao_result'.proposal_id = proposal_id

\* C30: once finalize_proposal has been applied to a proposal its outcome is
\* frozen: finalize_proposal sets the status to passed iff votes_for >
\* votes_against at that moment and to rejected otherwise; a finalized
\* proposal never returns to active and keeps its status and its three
\* tallies; every later cast_vote on it is rejected and leaves the tallies
\* and the members' counters unchanged; and a repeated finalize_proposal
\* returns the same final status.
C30_FinalizedProposalFrozen ==
    [][ \A community_id \in DOMAIN communities :
          \A k \in 1..Len(communities[community_id].proposals) :
            LET before == communities[community_id].proposals[k]
                after  == communities'[community_id].proposals[k]
                id     == before.proposal_id
            IN  /\ CallOn("finalize_proposal", community_id, id) =>
                      /\ after.status = IF before.votes_for > before.votes_against
                                        THEN "passed" ELSE "rejected"
                      /\ dao_result'.result.final_status = after.status
                      /\ Tallies(after) = Tallies(before)
                /\ before.status # "active" =>
                      /\ after.status = before.status
                      /\ Tallies(after) = Tallies(before)
                      /\ CallOn("cast_vote", community_id, id) =>
                            /\ dao_result'.result = Failure("Proposal voting has ended")
                            /\ member_registry' = member_registry
                      /\ CallOn("finalize_proposal", community_id, id) =>
                            dao_result'.result.final_status = before.status
      ]_vars

\* A vote by a member was just rejected on a proposal that passed with votes
\* on both sides.
C30_Witness ==
    /\ dao_result.op = "cast_vote"
    /\ dao_result.result = Failure("Proposal voting has ended")
    /\ \E community_id \in DOMAIN communities :
          LET community == communities[community_id]
              k == FindProposal(community, dao_result.proposal_id)
          IN  /\ k # 0
              /\ community.proposals[k].status = "passed"
              /\ community.proposals[k].votes_against > 0
              /\ Len(community.members) = 2

====
